---- MODULE Spec2Model ----
(***************************************************************************)
(* Model of the map-search scraper: the /api/scrape handler, the scrape    *)
(* orchestrator scrapeGoogleMaps in its two variants (a detail page per    *)
(* listing, and one page reused for every listing), the listing discovery  *)
(* loop collectListingUrls and the field cascades of                       *)
(* extractBusinessDetails.                                                 *)
(*                                                                         *)
(* Text is a sequence of one-character strings, so that trim, split and    *)
(* the regular expressions of the code are computed, not assumed.  An      *)
(* optional value (an element that querySelector may not find) is a        *)
(* sequence of length 0 or 1.                                              *)
(***************************************************************************)
EXTENDS Integers, Sequences, FiniteSets, TLC

VARIABLES
    variant,                \* which server file runs: "perListing" | "singlePage"
    pc,                     \* position of the request's single flow of control
    limit,                  \* the limit parameter of the request
    browser,                \* "none" | "open" | "closed"
    listingUrls,            \* collectListingUrls: the collected references
    scrollAttempts,         \* collectListingUrls: scrolls performed
    consecutiveNoNewUrls,   \* collectListingUrls: stagnation counter
    iterations,             \* history: loop iterations of collectListingUrls begun
    harvestedAny,           \* history: some harvest returned a candidate
    dupHarvested,           \* history: a harvest repeated a url (its own or a collected one)
    exposed,                \* history: how many distinct listings the harvests have shown
    lastGrowth,             \* history: the last iteration after which the list was longer
    scrollWaits,            \* history: the ms awaited after each scroll of discovery
    i,                      \* index of the listing being processed (0-based)
    detailedData,           \* the records pushed so far
    openPages,              \* listing indices whose detail page is open
    closedPages,            \* listing indices whose detail page was closed
    clickedAt,              \* history: feed position the last pass clicked by index, or -1
    attempts,               \* history: fault point met by each listing processed
    detailPage,             \* the rendered detail page last handed to extraction
    queried,                \* history: strategies evaluated per field on detailPage
    feedItems,              \* single-page variant: the listing elements now rendered
    listingsCount,          \* single-page variant: scroll loop, current count
    previousCount,          \* single-page variant: scroll loop, count before the scroll
    businessListings,       \* single-page variant: the collected {name, index}
    thrown,                 \* "none", or the step whose exception left scrapeGoogleMaps
    response,               \* what the /api/scrape handler answered
    request,                \* history: query and location of the request's body
    waited,                 \* history: ms awaited at the end of the last listing's pass
    calls,                  \* two concurrent calls of scrapeGoogleMaps: each one's locals
    browsers,               \* two concurrent calls: the state of every browser launched
    pages,                  \* two concurrent calls: the browser of every page opened
    exportRequest,          \* the body of the request to /api/export
    exportResponse,         \* what the /api/export handler answered
    harvest,                \* one page.evaluate of discovery: the feed and what it gave
    scrapeButton,           \* web client: the submit button, disabled while a scrape runs
    resultsSection,         \* web client: "hidden" | "shown", the section of the export buttons
    scrapedData,            \* web client: the number of records kept for export
    statusAlert,            \* web client: the status alert, its class and who wrote it last
    timers,                 \* web client: auto-hide timers started and not yet fired
    exportBtns,             \* web client: each export button, by the id of its element
    inFlight,               \* web client: formats whose export request awaits its response
    handled,                \* history: formats whose export request was sent and answered
    unhandled               \* history: formats whose exportData ended in an uncaught error

concurrentVars == <<calls, browsers, pages>>

scrapeVars == <<variant, pc, limit, browser, listingUrls, scrollAttempts,
                consecutiveNoNewUrls, iterations, harvestedAny, dupHarvested, exposed, lastGrowth, scrollWaits, i,
                detailedData, openPages, closedPages, clickedAt, attempts, detailPage, queried,
                feedItems, listingsCount, previousCount, businessListings, thrown,
                response, request, waited>>

exportVars == <<exportRequest, exportResponse>>

harvestVars == <<harvest>>

clientVars == <<scrapeButton, resultsSection, scrapedData, statusAlert, timers, exportBtns,
                inFlight, handled, unhandled>>

\* the variables of the other specifications, for the actions of a request
sideVars == <<exportVars, concurrentVars, harvestVars, clientVars>>

notConcurrent == <<scrapeVars, exportVars, harvestVars, clientVars>>

notExport == <<scrapeVars, concurrentVars, harvestVars, clientVars>>

notHarvest == <<scrapeVars, concurrentVars, exportVars, clientVars>>

notClient == <<scrapeVars, concurrentVars, exportVars, harvestVars>>

vars == <<sideVars, variant, pc, limit, browser, listingUrls, scrollAttempts,
          consecutiveNoNewUrls, iterations, harvestedAny, dupHarvested, exposed, lastGrowth, scrollWaits, i,
          detailedData,
          openPages, closedPages, clickedAt, attempts, detailPage, queried, feedItems,
          listingsCount, previousCount, businessListings, thrown, response,
          request, waited>>

discoveryVars == <<listingUrls, scrollAttempts, consecutiveNoNewUrls,
                   iterations, harvestedAny, dupHarvested, exposed, lastGrowth, scrollWaits>>

listingVars == <<i, detailedData, openPages, closedPages, clickedAt, attempts, detailPage,
                 queried>>

singlePageVars == <<feedItems, listingsCount, previousCount, businessListings>>

--------------------------------------------------------------------------
(* Bounds *)

\* limit of each of the two concurrent requests
MaxConcurrentLimit == 2

\* scrolls after which a concurrent request's collection ends
MaxConcurrentScrolls == 2

\* largest limit a request of the discovery specification asks for
MaxLimit == 7

\* largest limit a request of the whole-scrape specification asks for
MaxScrapeLimit == 3

--------------------------------------------------------------------------
(* Text *)

NA == <<"N", "/", "A">>

IsSpace(c) == c \in {" ", "\n"}

RECURSIVE TrimLeft(_)
TrimLeft(s) ==
    IF s = <<>> THEN <<>>
    ELSE IF IsSpace(Head(s)) THEN TrimLeft(Tail(s)) ELSE s

RECURSIVE TrimRight(_)
TrimRight(s) ==
    IF s = <<>> THEN <<>>
    ELSE IF IsSpace(s[Len(s)]) THEN TrimRight(SubSeq(s, 1, Len(s) - 1)) ELSE s

\* String.prototype.trim
Trim(s) == TrimRight(TrimLeft(s))

\* s.split('\n')[0]
RECURSIVE FirstLine(_)
FirstLine(s) ==
    IF s = <<>> THEN <<>>
    ELSE IF Head(s) = "\n" THEN <<>>
    ELSE <<Head(s)>> \o FirstLine(Tail(s))

--------------------------------------------------------------------------
(* Listing discovery: collectListingUrls *)

maxScrollAttempts == 30

maxConsecutiveNoNewUrls == 5

listingLinkSelectors ==
    << "a.hfpxzc",
       ".Nv2PK a[href*=/maps/place/]",
       "div[role=article] a[data-value]",
       "a[jsaction*=mouseup]",
       "a[aria-label][href*=/maps/place/]" >>

\* An anchor of the results feed.  href: n > 0 is the url of place n (it
\* contains '/maps/place/'), 0 is the empty string, -1 is a url of another
\* kind.  aria: the aria-label, <<>> when missing or empty.  heading: the
\* text of the heading found from the closest div, when there is one.
Link(href, aria, heading, linkText, divText) ==
    [href |-> href, aria |-> aria, heading |-> heading,
     linkText |-> linkText, divText |-> divText]

Labeled(h) == Link(h, <<"A">>, <<>>, <<>>, <<>>)

\* url && url.includes('/maps/place/')
IsPlaceUrl(href) == href # 0 /\ href > 0

\* The name of one anchor: aria-label, else the nearby heading's trimmed
\* text, else the first line of the trimmed text of the link or its div.
LinkName(link) ==
    IF link.aria # <<>> THEN link.aria
    ELSE IF link.heading # <<>> THEN Trim(link.heading[1])
    ELSE LET raw == IF link.linkText # <<>> THEN link.linkText ELSE link.divText
         IN  Trim(FirstLine(Trim(raw)))

\* a faulty variant: the loop lacks its break, so the last selector that
\* gives elements wins
RECURSIVE LastNonEmpty(_, _)
LastNonEmpty(dom, n) ==
    IF n > Len(listingLinkSelectors) THEN <<>>
    ELSE LET later == LastNonEmpty(dom, n + 1)
         IN  IF later # <<>> THEN later ELSE dom[n]

\* The elements of the first selector that matches at least one; dom[n] is
\* what document.querySelectorAll gives for selector number n.
RECURSIVE FirstNonEmpty(_, _)
FirstNonEmpty(dom, n) ==
    IF n > Len(listingLinkSelectors) THEN <<>>
    ELSE IF dom[n] # <<>> THEN dom[n]
    ELSE FirstNonEmpty(dom, n + 1)

RECURSIVE NamedPlaces(_)
NamedPlaces(links) ==
    IF links = <<>> THEN <<>>
    ELSE LET link == Head(links)
             name == LinkName(link)
         IN  IF IsPlaceUrl(link.href) /\ name # <<>>
             THEN <<[name |-> name, url |-> link.href]>> \o NamedPlaces(Tail(links))
             ELSE NamedPlaces(Tail(links))

\* The page.evaluate of one iteration: the {name, url} pairs now visible.
HarvestVisible(dom) == NamedPlaces(FirstNonEmpty(dom, 1))

UrlCollected(urls, url) == \E k \in 1..Len(urls) : urls[k].url = url

AddUniqueNoBreak(urls, items, lim, added) ==
    LET Keep(acc, item) == IF UrlCollected(acc, item.url) THEN acc ELSE Append(acc, item)
        a1 == IF Len(items) >= 1 THEN Keep(urls, items[1]) ELSE urls
        a2 == IF Len(items) >= 2 THEN Keep(a1, items[2]) ELSE a1
    IN  [urls |-> a2, added |-> added \/ a2 # urls]

AddUniqueNoCheck(urls, items, lim, added) ==
    LET a1 == IF Len(items) >= 1 THEN Append(urls, items[1]) ELSE urls
        a2 == IF Len(items) >= 2 /\ Len(a1) < lim THEN Append(a1, items[2]) ELSE a1
    IN  [urls |-> a2, added |-> added \/ a2 # urls]

\* The for loop over newUrls: push what is not collected yet, stop at limit.
RECURSIVE AddUnique(_, _, _, _)
AddUnique(urls, items, lim, added) ==
    IF items = <<>> THEN [urls |-> urls, added |-> added]
    ELSE IF ~UrlCollected(urls, Head(items).url)
         THEN LET pushed == Append(urls, Head(items))
              IN  IF Len(pushed) >= lim
                  THEN [urls |-> pushed, added |-> TRUE]
                  ELSE AddUnique(pushed, Tail(items), lim, TRUE)
         ELSE AddUnique(urls, Tail(items), lim, added)

\* Array.prototype.slice(0, n)
Slice0(seq, n) == SubSeq(seq, 1, IF n < Len(seq) THEN n ELSE Len(seq))

LoopCondNoScrollBound ==
    /\ Len(listingUrls) < limit
    /\ consecutiveNoNewUrls < maxConsecutiveNoNewUrls

LoopCond ==
    /\ Len(listingUrls) < limit
    /\ scrollAttempts < maxScrollAttempts
    /\ consecutiveNoNewUrls < maxConsecutiveNoNewUrls

\* Sample feeds.  Urls are only ever compared for equality, so the n-th new
\* url a run meets is called n: a harvest holds urls already collected and
\* the next unseen ones in order.
SampleLinks(k) ==
    {Labeled(h) : h \in {k, k + 1, k + 2} \ {0}}
    \cup { Link(1, <<"B">>, <<>>, <<>>, <<>>),
           Link(2, <<>>, << <<" ", "H", " ">> >>, <<"x">>, <<>>),
           Link(3, <<>>, <<>>, <<>>, <<"\n", "T", "\n", "x">>),
           Link(k + 1, <<>>, <<>>, <<>>, <<>>),
           Link(k + 1, <<>>, << <<" ">> >>, <<"T">>, <<>>),
           Link(-1, <<"A">>, <<>>, <<>>, <<>>),
           Link(0, <<"A">>, <<>>, <<>>, <<>>) }

RECURSIVE InOrder(_, _)
InOrder(items, k) ==
    IF items = <<>> THEN TRUE
    ELSE IF Head(items).url <= k THEN InOrder(Tail(items), k)
    ELSE Head(items).url = k + 1 /\ InOrder(Tail(items), k + 1)

SampleHarvests(k) ==
    {ls \in {<<>>} \cup {<<l>> : l \in SampleLinks(k)}
                   \cup {<<l, m>> : l, m \in SampleLinks(k)} :
        InOrder(NamedPlaces(ls), k)}

\* A feed where selector number f is the first to match; the selectors
\* after it match another anchor.
FeedDom(f, ls) ==
    [n \in 1..Len(listingLinkSelectors) |->
        IF n < f THEN <<>> ELSE IF n = f THEN ls ELSE <<Labeled(1)>>]

\* A harvest names a url that is collected already, or names one twice.
RepeatsUrl(urls, items) ==
    \/ \E n \in 1..Len(items) : UrlCollected(urls, items[n].url)
    \/ \E a, b \in 1..Len(items) : a < b /\ items[a].url = items[b].url

\* The number of distinct listings shown so far, after a harvest: urls are
\* numbered in the order they are first met.
RECURSIVE ExposedAfter(_, _)
ExposedAfter(items, shown) ==
    IF items = <<>> THEN shown
    ELSE ExposedAfter(Tail(items), IF Head(items).url > shown THEN Head(items).url ELSE shown)

\* What page.evaluate returns on the sample feeds.
SampleNewUrls(k) ==
    {HarvestVisible(FeedDom(f, ls)) :
        ls \in SampleHarvests(k), f \in 1..Len(listingLinkSelectors)}

\* the wait after a scroll: its base and its increase per scroll
baseWait == 3000

waitStep == 500

\* a faulty variant: the same wait after every scroll
WaitTimeFlat(scrolls) == baseWait

\* const waitTime = 3000 + (scrollAttempts * 500)
WaitTime(scrolls) == baseWait + (scrolls * waitStep)

\* a faulty variant: the counter is never reset
TrackNoReset(addedNewUrls, count) == count + 1

\* if (addedNewUrls) consecutiveNoNewUrls = 0; else consecutiveNoNewUrls++
TrackNoNewUrls(addedNewUrls, count) == IF addedNewUrls THEN 0 ELSE count + 1

\* One iteration of the while loop (harvest, add, count, scroll).
DiscoverIteration ==
    /\ pc = "discover"
    /\ LoopCond
    /\ \E newUrls \in SampleNewUrls(Len(listingUrls)) :
          LET r == AddUnique(listingUrls, newUrls, limit, FALSE)
          IN  /\ listingUrls' = r.urls
              /\ consecutiveNoNewUrls' = TrackNoNewUrls(r.added, consecutiveNoNewUrls)
              /\ lastGrowth' =
                    IF Len(r.urls) > Len(listingUrls) THEN iterations + 1 ELSE lastGrowth
              /\ scrollAttempts' =
                    IF Len(r.urls) < limit THEN scrollAttempts + 1 ELSE scrollAttempts
              /\ scrollWaits' =
                    IF Len(r.urls) < limit
                    THEN Append(scrollWaits, WaitTime(scrollAttempts + 1))
                    ELSE scrollWaits
              /\ harvestedAny' = (harvestedAny \/ newUrls # <<>>)
              /\ dupHarvested' = (dupHarvested \/ RepeatsUrl(listingUrls, newUrls))
              /\ exposed' = ExposedAfter(newUrls, exposed)
    /\ iterations' = iterations + 1
    /\ UNCHANGED <<variant, request, sideVars, waited, pc, limit, browser, listingVars, singlePageVars, thrown, response>>

\* The loop ended: return listingUrls.slice(0, limit).  The caller keeps the
\* returned sequence; the locals of the call, and the history kept about it,
\* end with the call.
DiscoverReturn ==
    /\ pc = "discover"
    /\ ~LoopCond
    /\ listingUrls' = Slice0(listingUrls, limit)
    /\ scrollAttempts' = 0
    /\ consecutiveNoNewUrls' = 0
    /\ iterations' = 0
    /\ harvestedAny' = FALSE
    /\ dupHarvested' = FALSE
    /\ lastGrowth' = 0
    /\ scrollWaits' = <<>>
    /\ pc' = "listings"
    /\ UNCHANGED <<variant, request, sideVars, waited, limit, browser, exposed, listingVars, singlePageVars, thrown,
                   response>>

\* page.waitForTimeout, page.evaluate or the scroll rejects: the exception
\* leaves collectListingUrls.
DiscoverThrows ==
    /\ pc = "discover"
    /\ LoopCond
    /\ pc' = "finally"
    /\ thrown' = "discover"
    /\ iterations' = iterations + 1
    /\ UNCHANGED <<variant, request, sideVars, waited, limit, browser, listingUrls, scrollAttempts,
                   consecutiveNoNewUrls, harvestedAny, dupHarvested, exposed, lastGrowth, scrollWaits,
                   listingVars,
                   singlePageVars, response>>

--------------------------------------------------------------------------
(* Field extraction: extractBusinessDetails *)

\* s.startsWith(prefix)
StartsWith(s, prefix) ==
    Len(s) >= Len(prefix) /\ SubSeq(s, 1, Len(prefix)) = prefix

\* s.indexOf(sub) + 1, 0 when sub does not occur
IndexOf(s, sub) ==
    LET starts == {p \in 1..(Len(s) - Len(sub) + 1) :
                      SubSeq(s, p, p + Len(sub) - 1) = sub}
    IN  IF starts = {} THEN 0 ELSE CHOOSE p \in starts : \A q \in starts : p <= q

\* s.includes(sub)
Includes(s, sub) == IndexOf(s, sub) # 0

\* s.split(sep)[0]
BeforeFirst(s, sep) ==
    IF Includes(s, sep) THEN SubSeq(s, 1, IndexOf(s, sep) - 1) ELSE s

Digits == {"0", "1", "2", "3", "4", "5", "6", "7", "8", "9"}

DigitValue(c) ==
    CASE c = "0" -> 0 [] c = "1" -> 1 [] c = "2" -> 2 [] c = "3" -> 3
      [] c = "4" -> 4 [] c = "5" -> 5 [] c = "6" -> 6 [] c = "7" -> 7
      [] c = "8" -> 8 [] c = "9" -> 9

nameSelectors ==
    << "h1.fontHeadlineLarge", "div[role=main] div[role=heading]", "h1.DUwDvf",
       "h1.x3AX1-LfntMc-header-title-title", "div.x3AX1-LfntMc-header-title-title",
       "div.qBF1Pd-haAclf" >>

addressSelectors ==
    << "button[data-item-id=address]", "button[jsaction*=address]",
       "button[aria-label*=Address]", "button.CsEnBe[aria-label]",
       "div[role=button][aria-label*=Address]" >>

phoneSelectors ==
    << "button[data-item-id^=phone:tel:]", "button[aria-label*=Phone]",
       "div[role=button][aria-label*=Phone]", "a[data-item-id^=phone]",
       "a[href^=tel:]" >>

websiteSelectors ==
    << "a[data-item-id=authority]", "a[aria-label*=website]", "a[aria-label*=Website]",
       "a[href^=https://][data-item-id]", "div[role=button][aria-label*=website]" >>

ratingSelectors ==
    << "span.ceJTW", "span.ODSEW-ShBeI-H1e3jb", "span[aria-hidden=true][role=img]",
       "div.F7nice", "span.iRCJncVPvXIc4GMcvvB9" >>

hoursTableSelectors ==
    << "table.eK4R0e", "table.WgFkxc", "div[role=region][aria-label*=hour]" >>

hoursSelectors == << ".OMl5r", ".VaxuYe", ".G8aQO", "[aria-label*=hour]" >>

categorySelectors ==
    << "a.CsEnBe", "button[jsaction*=pane.rating.category]", "button.DkEaL",
       "span[jsaction*=category]", "button[aria-label*=categor]" >>

attributeSelectors ==
    << ".RcCsl .AeaXub .Io6YTe span", ".ggc0ld .Io6YTe", ".q5X0Ue", "div.PODJx" >>

priceSelectors == << ".MNVeJb", "span.mgr77e", "span[aria-label*=Price]" >>

\* A loop over selectors that never breaks ends on the last hit.
RECURSIVE LastHit(_, _)
LastHit(hits, n) ==
    IF n > Len(hits) THEN 0
    ELSE LET later == LastHit(hits, n + 1)
         IN  IF later # 0 THEN later ELSE IF hits[n] THEN n ELSE 0

\* for (const selector of selectors) { ...; if (hit) { ...; break; } }:
\* the number of the first selector, from n on, whose result is a hit; 0
\* when the loop runs to its end.  hits[n] tells whether what selector n
\* finds is a hit.
RECURSIVE FirstHit(_, _)
FirstHit(hits, n) ==
    IF n > Len(hits) THEN 0
    ELSE IF hits[n] THEN n
    ELSE FirstHit(hits, n + 1)

\* how many selectors such a loop queries
Queried(hit, els) == IF hit = 0 THEN Len(els) ELSE hit

Located(el) == el # <<>>

\* which selectors of a list locate an element
LocatedIn(els) == [n \in 1..Len(els) |-> Located(els[n])]

\* a faulty variant: the loop lacks its break, so the last selector that
\* locates an element gives the name
ExtractNameNoBreak(page) ==
    LET hit == LastHit(LocatedIn(page.nameEls), 1)
    IN  [value |-> IF hit = 0 THEN <<>> ELSE <<Trim(page.nameEls[hit][1])>>,
         tried |-> Len(page.nameEls)]

\* name: the first selector that locates an element gives its trimmed text
ExtractName(page) ==
    LET hit == FirstHit(LocatedIn(page.nameEls), 1)
    IN  [value |-> IF hit = 0 THEN <<>> ELSE <<Trim(page.nameEls[hit][1])>>,
         tried |-> Queried(hit, page.nameEls)]

AddressValue(el) ==
    IF el.inner # <<>> THEN Trim(el.inner[1]) ELSE Trim(el.text)

ExtractAddress(page) ==
    LET hit == FirstHit(LocatedIn(page.addressEls), 1)
    IN  [value |-> IF hit = 0 THEN NA ELSE AddressValue(page.addressEls[hit][1]),
         tried |-> Queried(hit, page.addressEls)]

TelPrefix == <<"t", "e", "l", ":">>

PhoneValue(el) ==
    IF el.inner # <<>> THEN Trim(el.inner[1])
    ELSE IF el.href # <<>> /\ StartsWith(el.href, TelPrefix)
         THEN SubSeq(el.href, Len(TelPrefix) + 1, Len(el.href))
         ELSE Trim(el.text)

ExtractPhone(page) ==
    LET hit == FirstHit(LocatedIn(page.phoneEls), 1)
    IN  [value |-> IF hit = 0 THEN NA ELSE PhoneValue(page.phoneEls[hit][1]),
         tried |-> Queried(hit, page.phoneEls)]

GoogleCom == <<"g", "o", "o", "g", "l", "e", ".", "c", "o", "m">>

WebsiteValue(el) ==
    IF el.inner # <<>> THEN Trim(el.inner[1])
    ELSE IF el.href # <<>> /\ ~Includes(el.href, GoogleCom) THEN el.href
         ELSE Trim(el.text)

ExtractWebsite(page) ==
    LET hit == FirstHit(LocatedIn(page.websiteEls), 1)
    IN  [value |-> IF hit = 0 THEN NA ELSE WebsiteValue(page.websiteEls[hit][1]),
         tried |-> Queried(hit, page.websiteEls)]

ReportedBy == <<"R", "e", "p", "o", "r", "t", "e", "d", " ", "b", "y">>

PriceValue(text) == Trim(BeforeFirst(Trim(text), ReportedBy))

ExtractPriceRange(page) ==
    LET hit == FirstHit(LocatedIn(page.priceEls), 1)
    IN  [value |-> IF hit = 0 THEN <<>> ELSE <<PriceValue(page.priceEls[hit][1])>>,
         tried |-> Queried(hit, page.priceEls)]

\* /^\d(\.\d)?$/
RatingPattern(text) ==
    \/ Len(text) = 1 /\ text[1] \in Digits
    \/ Len(text) = 3 /\ text[1] \in Digits /\ text[2] = "." /\ text[3] \in Digits

\* parseFloat of a text that passes RatingPattern, in tenths
RatingTenths(text) ==
    10 * DigitValue(text[1]) + (IF Len(text) = 3 THEN DigitValue(text[3]) ELSE 0)

\* Method 1: an element with text whose trimmed text passes the pattern
RatingHit(el) == el # <<>> /\ el[1] # <<>> /\ RatingPattern(Trim(el[1]))

\* Method 2: the first span with a short text that passes the pattern and
\* is at most 5
RatingSpanHit(text) ==
    /\ Len(Trim(text)) <= 3
    /\ RatingPattern(Trim(text))
    /\ RatingTenths(Trim(text)) <= 50

ExtractRating(page) ==
    LET hit == FirstHit([n \in 1..Len(page.ratingEls) |-> RatingHit(page.ratingEls[n])], 1)
        span == FirstHit([n \in 1..Len(page.spans) |-> RatingSpanHit(page.spans[n])], 1)
    IN  IF hit # 0
        THEN [value |-> Trim(page.ratingEls[hit][1]), tried |-> hit]
        ELSE [value |-> IF span = 0 THEN NA ELSE Trim(page.spans[span]),
              tried |-> Len(page.ratingEls) + 1]

\* Array.prototype.join
RECURSIVE Join(_, _)
Join(texts, sep) ==
    IF texts = <<>> THEN <<>>
    ELSE IF Len(texts) = 1 THEN texts[1]
    ELSE texts[1] \o sep \o Join(Tail(texts), sep)

\* the rows of one hours table as "day: hours", rows lacking either left out
RECURSIVE HoursRows(_)
HoursRows(rows) ==
    IF rows = <<>> THEN <<>>
    ELSE LET row == Head(rows)
             day == IF row.day = <<>> THEN <<>> ELSE Trim(row.day[1])
             hours == IF row.hours = <<>> THEN <<>> ELSE Trim(row.hours[1])
         IN  IF day # <<>> /\ hours # <<>>
             THEN <<day \o <<":", " ">> \o hours>> \o HoursRows(Tail(rows))
             ELSE HoursRows(Tail(rows))

HoursTableHit(el) == el # <<>> /\ HoursRows(el[1]) # <<>>

\* hours: the first table with a complete row, else the first hours section
ExtractHours(page) ==
    LET table == FirstHit([n \in 1..Len(page.hoursTables) |-> HoursTableHit(page.hoursTables[n])], 1)
        section == FirstHit(LocatedIn(page.hoursSections), 1)
    IN  IF table # 0
        THEN [value |-> Join(HoursRows(page.hoursTables[table][1]), <<";", " ">>),
              tried |-> table]
        ELSE [value |-> IF section = 0 THEN NA ELSE Trim(page.hoursSections[section][1]),
              tried |-> Len(page.hoursTables) + Queried(section, page.hoursSections)]

LowerCase(c) ==
    CASE c = "R" -> "r" [] c = "E" -> "e" [] c = "V" -> "v" [] c = "I" -> "i"
      [] c = "W" -> "w" [] c = "S" -> "s" [] c = "C" -> "c" [] c = "A" -> "a"
      [] c = "T" -> "t" [] c = "G" -> "g" [] c = "O" -> "o" [] c = "Y" -> "y"
      [] c = "P" -> "p" [] OTHER -> c

\* the literal lit (lower case) stands at position p of s, whatever the case
LiteralAt(s, p, lit) ==
    /\ p >= 1
    /\ p + Len(lit) - 1 <= Len(s)
    /\ \A k \in 1..Len(lit) : LowerCase(s[p + k - 1]) = lit[k]

DigitAt(s, p) == p >= 1 /\ p <= Len(s) /\ s[p] \in Digits

\* (?:,\d{3}) at position p
GroupAt(s, p) ==
    /\ p + 3 <= Len(s)
    /\ s[p] = ","
    /\ DigitAt(s, p + 1) /\ DigitAt(s, p + 2) /\ DigitAt(s, p + 3)

\* how many (?:,\d{3}) follow each other from p
RECURSIVE GroupsFrom(_, _)
GroupsFrom(s, p) == IF GroupAt(s, p) THEN 1 + GroupsFrom(s, p + 4) ELSE 0

RECURSIVE SkipSpaces(_, _)
SkipSpaces(s, p) ==
    IF p <= Len(s) /\ IsSpace(s[p]) THEN SkipSpaces(s, p + 1) ELSE p

ReviewWord == <<"r", "e", "v", "i", "e", "w">>

\* The ways /(\d{1,3}(?:,\d{3})*)\s*reviews?/i matches from p, as
\* <<digits, groups>>
CountMatchesAt(s, p) ==
    {c \in (1..3) \X (0..Len(s)) :
        /\ \A k \in 0..(c[1] - 1) : DigitAt(s, p + k)
        /\ c[2] <= GroupsFrom(s, p + c[1])
        /\ LiteralAt(s, SkipSpaces(s, p + c[1] + 4 * c[2]), ReviewWord)}

\* match[1] of /(\d{1,3}(?:,\d{3})*)\s*reviews?/i, <<>> when it fails:
\* leftmost start, then as many digits, then as many groups as possible
ReviewsBefore(s) ==
    LET starts == {p \in 1..Len(s) : CountMatchesAt(s, p) # {}}
    IN  IF starts = {} THEN <<>>
        ELSE LET p == CHOOSE q \in starts : \A r \in starts : q <= r
                 ms == CountMatchesAt(s, p)
                 m == CHOOSE c \in ms :
                         \A d \in ms : c[1] > d[1] \/ (c[1] = d[1] /\ c[2] >= d[2])
             IN  <<SubSeq(s, p, p + m[1] + 4 * m[2] - 1)>>

\* match[1] of /reviews?[^0-9]*(\d{1,3}(?:,\d{3})*)/i, <<>> when it fails
ReviewsAfter(s) ==
    LET words == {p \in 1..Len(s) :
                     /\ LiteralAt(s, p, ReviewWord)
                     /\ \E q \in (p + Len(ReviewWord))..Len(s) : DigitAt(s, q)}
    IN  IF words = {} THEN <<>>
        ELSE LET p == CHOOSE q \in words : \A r \in words : q <= r
                 after == {q \in (p + Len(ReviewWord))..Len(s) : DigitAt(s, q)}
                 d == CHOOSE q \in after : \A r \in after : q <= r
                 n == IF DigitAt(s, d + 1) /\ DigitAt(s, d + 2) THEN 3
                      ELSE IF DigitAt(s, d + 1) THEN 2 ELSE 1
             IN  <<SubSeq(s, d, d + n + 4 * GroupsFrom(s, d + n) - 1)>>

ReviewContainerHit(text) == ReviewsBefore(text) # <<>>

\* reviews: the first rating container that shows a count, else the count
\* read from the text of the whole page
ExtractReviews(page) ==
    LET hit == FirstHit([n \in 1..Len(page.reviewContainers) |->
                               ReviewContainerHit(page.reviewContainers[n])], 1)
        before == ReviewsBefore(page.bodyText)
        after == ReviewsAfter(page.bodyText)
    IN  IF hit # 0
        THEN [value |-> ReviewsBefore(page.reviewContainers[hit])[1], tried |-> 1]
        ELSE [value |-> IF before # <<>> THEN before[1]
                        ELSE IF after # <<>> THEN after[1] ELSE NA,
              tried |-> 2]

Letters ==
    {"a", "b", "c", "d", "e", "f", "g", "h", "i", "j", "k", "l", "m", "n", "o",
     "p", "q", "r", "s", "t", "u", "v", "w", "x", "y", "z",
     "A", "B", "C", "D", "E", "F", "G", "H", "I", "J", "K", "L", "M", "N", "O",
     "P", "Q", "R", "S", "T", "U", "V", "W", "X", "Y", "Z"}

\* \w
IsWord(c) == c \in Letters \/ c \in Digits \/ c = "_"

\* [\w.-]
IsAddrChar(c) == IsWord(c) \/ c = "." \/ c = "-"

\* first position of the run of [\w.-] that ends at p
RECURSIVE RunStart(_, _)
RunStart(s, p) ==
    IF p >= 1 /\ IsAddrChar(s[p]) THEN RunStart(s, p - 1) ELSE p + 1

\* last position of the run that starts at p, oks[q] telling whether the
\* character at q can be part of it
RECURSIVE RunEnd(_, _)
RunEnd(oks, p) ==
    IF p <= Len(oks) /\ oks[p] THEN RunEnd(oks, p + 1) ELSE p - 1

AddrChars(s) == [q \in 1..Len(s) |-> IsAddrChar(s[q])]

WordChars(s) == [q \in 1..Len(s) |-> IsWord(s[q])]

\* the dots after the @ at position a where \.\w+ can start
EmailDots(s, a) ==
    {j \in (a + 2)..RunEnd(AddrChars(s), a + 1) :
        s[j] = "." /\ j + 1 <= Len(s) /\ IsWord(s[j + 1])}

\* match[0] of /[\w.-]+@[\w.-]+\.\w+/, <<>> when it fails
EmailMatch(s) ==
    LET ats == {a \in 2..Len(s) :
                   s[a] = "@" /\ IsAddrChar(s[a - 1]) /\ EmailDots(s, a) # {}}
    IN  IF ats = {} THEN <<>>
        ELSE LET a == CHOOSE b \in ats : \A c \in ats : b <= c
                 j == CHOOSE k \in EmailDots(s, a) : \A l \in EmailDots(s, a) : k >= l
             IN  <<SubSeq(s, RunStart(s, a - 1), RunEnd(WordChars(s), j + 1))>>

\* email: the first address-shaped text of the page
ExtractEmail(page) ==
    LET m == EmailMatch(page.bodyText)
    IN  [value |-> IF m # <<>> THEN m[1] ELSE NA, tried |-> 1]

HttpWord == <<"h", "t", "t", "p">>

MenuWord == <<"M", "e", "n", "u">>

PhoneColon == <<"P", "h", "o", "n", "e", ":">>

\* the test a category element's trimmed text has to pass
CategoryTextOk(text, website) ==
    /\ text # <<>>
    /\ Len(text) < 30
    /\ ~Includes(text, HttpWord)
    /\ ~Includes(text, <<"@">>)
    /\ ~(text[1] \in Digits)
    /\ text # MenuWord
    /\ text # website
    /\ ~Includes(text, PhoneColon)

\* elements.forEach over one selector's elements: every element that passes
\* overwrites category, so the last one stays
RECURSIVE CategoryAmong(_, _, _)
CategoryAmong(texts, website, category) ==
    IF texts = <<>> THEN category
    ELSE CategoryAmong(Tail(texts), website,
                       IF CategoryTextOk(Trim(Head(texts)), website)
                       THEN Trim(Head(texts)) ELSE category)

IsStop(c) == c \in {".", ",", ";"}

NotStops(s) == [q \in 1..Len(s) |-> ~IsStop(s[q])]

\* match[1] of /<word>:\s*([^.,;]+)/i for the lower-case literal word, <<>>
\* when it fails
PrefixedText(s, word) ==
    LET starts == {p \in 1..Len(s) :
                      /\ LiteralAt(s, p, word)
                      /\ RunEnd(NotStops(s), p + Len(word)) >= p + Len(word)}
    IN  IF starts = {} THEN <<>>
        ELSE LET p == CHOOSE q \in starts : \A r \in starts : q <= r
                 from == p + Len(word)
                 to == RunEnd(NotStops(s), from)
                 text == SkipSpaces(s, from)
             IN  <<IF text <= to THEN SubSeq(s, text, to) ELSE SubSeq(s, to, to)>>

CategoryColon == <<"c", "a", "t", "e", "g", "o", "r", "y", ":">>

TypeColon == <<"t", "y", "p", "e", ":">>

\* category: the first selector with an element that passes the test, else
\* the text after "Category:" or "Type:" in the page
ExtractCategory(page, website) ==
    LET hit == FirstHit([n \in 1..Len(page.categoryEls) |->
                               CategoryAmong(page.categoryEls[n], website, NA) # NA], 1)
        byCategory == PrefixedText(page.bodyText, CategoryColon)
        byType == PrefixedText(page.bodyText, TypeColon)
    IN  IF hit # 0
        THEN [value |-> CategoryAmong(page.categoryEls[hit], website, NA), tried |-> hit]
        ELSE [value |-> IF byCategory # <<>> /\ byCategory[1] # <<>> THEN Trim(byCategory[1])
                        ELSE IF byType # <<>> /\ byType[1] # <<>> THEN Trim(byType[1])
                        ELSE NA,
              tried |-> Len(page.categoryEls) + 1]

\* the texts of one attribute selector's elements that are kept; known is
\* the set of values an attribute must differ from
RECURSIVE AttributesAmong(_, _)
AttributesAmong(texts, known) ==
    IF texts = <<>> THEN <<>>
    ELSE LET text == Trim(Head(texts))
         IN  IF text # <<>> /\ text \notin known /\ Len(text) < 50
             THEN <<text>> \o AttributesAmong(Tail(texts), known)
             ELSE AttributesAmong(Tail(texts), known)

\* the attributes of the selectors n.. of the list, one after the other
RECURSIVE AttributesFrom(_, _, _)
AttributesFrom(els, known, n) ==
    IF n > Len(els) THEN <<>>
    ELSE AttributesAmong(els[n], known) \o AttributesFrom(els, known, n + 1)

\* attributes: the kept texts of all four selectors, joined; no value when
\* there is none
ExtractAttributes(page, name, address, phone, website, category) ==
    LET known == {address, phone, website, category}
                 \cup (IF name = <<>> THEN {} ELSE {name[1]})
        attributes == AttributesFrom(page.attributeEls, known, 1)
    IN  [value |-> IF Len(attributes) > 0 THEN <<Join(attributes, <<",", " ">>)>> ELSE <<>>,
         tried |-> Len(page.attributeEls)]

FieldNames ==
    {"name", "address", "phone", "website", "email", "rating", "reviews",
     "hours", "category", "priceRange", "attributes"}

\* The results of the rules that depend on the name, address, phone and
\* website found, put together with these.
WithCategory(page, name, address, phone, website, category) ==
    [name |-> name,
     address |-> address,
     phone |-> phone,
     website |-> website,
     rating |-> ExtractRating(page),
     reviews |-> ExtractReviews(page),
     hours |-> ExtractHours(page),
     email |-> ExtractEmail(page),
     category |-> category,
     attributes |-> ExtractAttributes(page, name.value, address.value, phone.value,
                                      website.value, category.value),
     priceRange |-> ExtractPriceRange(page)]

WithWebsite(page, name, address, phone, website) ==
    WithCategory(page, name, address, phone, website, ExtractCategory(page, website.value))

\* The result of every field's rule on one page: its value and the number
\* of strategies it evaluated.
FieldResults(page) ==
    WithWebsite(page, ExtractName(page), ExtractAddress(page), ExtractPhone(page),
                ExtractWebsite(page))

\* The details object made of the results r: a function from the keys that
\* were assigned to their values.  name, attributes and priceRange are keys
\* only when the page gave them a value.
DetailsOf(r) ==
    [f \in {g \in FieldNames :
               g \in {"name", "attributes", "priceRange"} => r[g].value # <<>>} |->
        IF f \in {"name", "attributes", "priceRange"} THEN r[f].value[1] ELSE r[f].value]

extractBusinessDetails(page) == DetailsOf(FieldResults(page))

\* how many strategies of each field the results r took
TriedOf(r) == [f \in FieldNames |-> r[f].tried]

StrategiesEvaluated(page) == TriedOf(FieldResults(page))

--------------------------------------------------------------------------
(* Sample detail pages *)

NoneOf(selectors) == [n \in 1..Len(selectors) |-> <<>>]

\* a page on which no selector finds anything and the text is empty
EmptyPage ==
    [nameEls |-> NoneOf(nameSelectors),
     addressEls |-> NoneOf(addressSelectors),
     phoneEls |-> NoneOf(phoneSelectors),
     websiteEls |-> NoneOf(websiteSelectors),
     ratingEls |-> NoneOf(ratingSelectors),
     spans |-> <<>>,
     reviewContainers |-> <<>>,
     bodyText |-> <<>>,
     hoursTables |-> NoneOf(hoursTableSelectors),
     hoursSections |-> NoneOf(hoursSelectors),
     categoryEls |-> [n \in 1..Len(categorySelectors) |-> <<>>],
     attributeEls |-> [n \in 1..Len(attributeSelectors) |-> <<>>],
     priceEls |-> NoneOf(priceSelectors)]

\* the ways up to two of a list's selectors find one of the elements els
OneOrTwo(selectors, els) ==
    LET none == NoneOf(selectors)
        N == 1..Len(selectors)
    IN  {none}
        \cup {[none EXCEPT ![k] = <<e>>] : k \in N, e \in els}
        \cup {[none EXCEPT ![k] = <<e>>, ![m] = <<f>>] :
                 k \in N, m \in N \ {1}, e \in els, f \in els}

\* the ways up to two of a list's selectors find the element lists in lists
OneOrTwoLists(selectors, lists) ==
    LET none == [n \in 1..Len(selectors) |-> <<>>]
        N == 1..Len(selectors)
    IN  {none}
        \cup {[none EXCEPT ![k] = e] : k \in N, e \in lists}
        \cup {[none EXCEPT ![k] = e, ![m] = f] :
                 k \in N, m \in N \ {1}, e \in lists, f \in lists}

Joe == <<"J", "o", "e">>

Cafe == <<"C", "a", "f", "e">>

SampleTexts == {<<" ", "J", "o", "e", "\n">>, Cafe, <<"4", ".", "5">>}

SampleRatings ==
    {<<" ", "4", ".", "5">>, <<"3">>, <<"9", ".", "9">>, <<"4", "5">>, <<>>, Cafe}

SampleAnchors ==
    {[inner |-> <<Joe>>, href |-> <<>>, text |-> Cafe],
     [inner |-> <<>>, href |-> TelPrefix \o <<"5", "5">>, text |-> Cafe],
     [inner |-> <<>>, href |-> <<"h", "t", "t", "p", ":", "/", "/", "j", ".", "e">>,
      text |-> Cafe],
     [inner |-> <<>>, href |-> <<"/", "/">> \o GoogleCom, text |-> <<" ", "J", "o", "e">>],
     [inner |-> <<>>, href |-> <<>>, text |-> Cafe]}

SampleRows ==
    {<<>>,
     <<[day |-> <<<<"M", "o">>>>, hours |-> <<<<"9", "-", "5">>>>]>>,
     <<[day |-> <<<<"M", "o">>>>, hours |-> <<>>],
       [day |-> <<<<"T", "u">>>>, hours |-> <<<<" ", "8", "-", "4">>>>],
       [day |-> <<<<"W", "e">>>>, hours |-> <<<<"9", "-", "5">>>>]>>,
     <<[day |-> <<<<" ">>>>, hours |-> <<<<"9", "-", "5">>>>]>>}

SampleBodies ==
    {<<"J", "o", "e", " ", "4", ".", "5">>,
     <<"1", ",", "2", "3", "4", " ", "R", "e", "v", "i", "e", "w", "s">>,
     <<"r", "e", "v", "i", "e", "w", "s", ":", " ", "8", "7">>,
     <<"a", "@", "b", ".", "c", "o", " ", "T", "y", "p", "e", ":", " ", "B", "a", "r", ".">>,
     <<"C", "a", "t", "e", "g", "o", "r", "y", ":", " ", "C", "a", "f", "e", ";">>}

SampleCategoryLists ==
    {<<Cafe>>, << <<" ", "B", "a", "r", " ">>, Joe>>, <<MenuWord, <<"4", "t", "h">>>>,
     << <<"j", "@", "e">> >>, <<NA>>}

SampleAttributeLists ==
    {<<Joe>>, <<Cafe, <<" ", "W", "i", "F", "i">>>>, << <<"P", "e", "t", "s">> >>, << <<" ">> >>}

\* the span elements of a page whose rating selectors found els: those that
\* the span selectors found (all but number 4, a div), and the others
SpansOf(els, others) ==
    LET Span(n) == IF n # 4 /\ els[n] # <<>> THEN <<els[n][1]>> ELSE <<>>
    IN  Span(1) \o Span(2) \o Span(3) \o Span(5) \o others

\* Pages that differ from the empty page in one field's elements, pages
\* with a website whose category elements read "N/A", and the pages where
\* the name, address, phone, website and category found are texts that the
\* attribute elements repeat.
SamplePages ==
    {[EmptyPage EXCEPT !.nameEls = els] : els \in OneOrTwo(nameSelectors, SampleTexts)}
    \cup {[EmptyPage EXCEPT !.addressEls = els] :
             els \in OneOrTwo(addressSelectors, SampleAnchors)}
    \cup {[EmptyPage EXCEPT !.phoneEls = els] :
             els \in OneOrTwo(phoneSelectors, SampleAnchors)}
    \cup {[EmptyPage EXCEPT !.websiteEls = els] :
             els \in OneOrTwo(websiteSelectors, SampleAnchors)}
    \cup {[EmptyPage EXCEPT !.ratingEls = els, !.spans = SpansOf(els, others)] :
             els \in OneOrTwo(ratingSelectors, SampleRatings),
             others \in {<<>>, <<Cafe, <<"7">>, <<"2">>>>}}
    \cup {[EmptyPage EXCEPT !.hoursTables = els] :
             els \in OneOrTwo(hoursTableSelectors, SampleRows)}
    \cup {[EmptyPage EXCEPT !.hoursTables = els, !.hoursSections = secs] :
             els \in OneOrTwo(hoursTableSelectors, {<<>>}),
             secs \in OneOrTwo(hoursSelectors, SampleTexts)}
    \cup {[EmptyPage EXCEPT !.categoryEls = els, !.bodyText = body] :
             els \in OneOrTwoLists(categorySelectors, SampleCategoryLists),
             body \in {<<>>, CHOOSE b \in SampleBodies : Includes(b, Cafe)}}
    \cup {[EmptyPage EXCEPT !.attributeEls = els] :
             els \in OneOrTwoLists(attributeSelectors, SampleAttributeLists)}
    \cup {[EmptyPage EXCEPT !.priceEls = els] :
             els \in OneOrTwo(priceSelectors, {<<"$", "$", " ">> \o ReportedBy, Cafe})}
    \cup {[EmptyPage EXCEPT !.bodyText = body, !.reviewContainers = boxes] :
             body \in SampleBodies \cup {<<>>},
             boxes \in {<<>>, <<Cafe>>, <<Cafe, <<"1", "2", " ", "r", "e", "v", "i", "e", "w">>>>}}
    \cup {[EmptyPage EXCEPT !.websiteEls[1] = <<[inner |-> <<<<"j", ".", "e">>>>,
                                                  href |-> <<>>, text |-> <<>>]>>,
                            !.categoryEls = cats] :
             cats \in OneOrTwoLists(categorySelectors, {<<NA>>, <<Cafe>>})}
    \cup {[EmptyPage EXCEPT !.nameEls = names, !.addressEls = anchors,
                            !.categoryEls = cats, !.attributeEls = attrs] :
             names \in OneOrTwo(nameSelectors, {Joe}) ,
             anchors \in {NoneOf(addressSelectors),
                          [NoneOf(addressSelectors) EXCEPT
                              ![1] = <<[inner |-> <<>>, href |-> <<>>, text |-> Cafe]>>]},
             cats \in {[n \in 1..Len(categorySelectors) |-> <<>>],
                       [n \in 1..Len(categorySelectors) |-> <<<<"B", "a", "r">>>>]},
             attrs \in {[n \in 1..Len(attributeSelectors) |->
                            <<Joe, Cafe, <<"B", "a", "r">>, <<"W", "i", "F", "i">>>>]}}

\* a detail page that shows no name and whose attribute elements read "A"
\* and "WiFi"
NamelessAttributesPage ==
    [EmptyPage EXCEPT !.attributeEls[1] = << <<"A">>, <<"W", "i", "F", "i">> >>]

\* a detail page that shows a name and a rating and nothing else
NameAndRatingPage ==
    [EmptyPage EXCEPT !.nameEls[3] = <<Joe>>,
                      !.ratingEls[4] = <<<<"4", ".", "5">>>>,
                      !.bodyText = <<"J", "o", "e", " ", "4", ".", "5">>]

\* a detail page that shows every field
FullPage ==
    [nameEls |-> [NoneOf(nameSelectors) EXCEPT ![1] = <<Joe>>],
     addressEls |-> [NoneOf(addressSelectors) EXCEPT
                       ![1] = <<[inner |-> <<<<"1", " ", "S", "t">>>>, href |-> <<>>,
                                 text |-> <<>>]>>],
     phoneEls |-> [NoneOf(phoneSelectors) EXCEPT
                     ![5] = <<[inner |-> <<>>, href |-> TelPrefix \o <<"5", "5">>,
                               text |-> <<>>]>>],
     websiteEls |-> [NoneOf(websiteSelectors) EXCEPT
                       ![1] = <<[inner |-> <<<<"j", ".", "e">>>>, href |-> <<>>,
                                 text |-> <<>>]>>],
     ratingEls |-> [NoneOf(ratingSelectors) EXCEPT ![1] = <<<<"4", ".", "5">>>>],
     spans |-> <<<<"4", ".", "5">>>>,
     reviewContainers |-> <<<<"1", "2", " ", "r", "e", "v", "i", "e", "w", "s">>>>,
     bodyText |-> <<"a", "@", "b", ".", "c", "o">>,
     hoursTables |-> [NoneOf(hoursTableSelectors) EXCEPT
                        ![1] = <<<<[day |-> <<<<"M", "o">>>>, hours |-> <<<<"9", "-", "5">>>>]>>>>],
     hoursSections |-> NoneOf(hoursSelectors),
     categoryEls |-> [n \in 1..Len(categorySelectors) |-> IF n = 3 THEN <<Cafe>> ELSE <<>>],
     attributeEls |-> [n \in 1..Len(attributeSelectors) |->
                          IF n = 2 THEN <<<<"W", "i", "F", "i">>>> ELSE <<>>],
     priceEls |-> [NoneOf(priceSelectors) EXCEPT ![2] = <<<<"$", "$">>>>]]

\* a detail page that shows a rating and no name
RatingOnlyPage == [EmptyPage EXCEPT !.ratingEls[1] = <<<<"3">>>>]

\* the detail pages the listings of a whole scrape show
ScrapePages == {NameAndRatingPage, RatingOnlyPage}

--------------------------------------------------------------------------
(* The /api/scrape handler and scrapeGoogleMaps *)

\* extractBusinessDetails and the strategies it evaluated on the pages of a
\* whole scrape
ScrapeDetails == [page \in ScrapePages |-> extractBusinessDetails(page)]

ScrapeQueried == [page \in ScrapePages |-> StrategiesEvaluated(page)]

NoResponse == [status |-> 0, success |-> FALSE, data |-> <<>>]

\* a faulty variant: the record is put in front of the others
PushFront(records, record) == <<record>> \o records

\* detailedData.push(record)
Push(records, record) == Append(records, record)

\* a faulty variant: { ...detailedInfo, name }, the listing's name wins
MergeNameLast(listing, details) ==
    [f \in {"name"} \cup DOMAIN details |->
        IF f = "name" THEN listing.name ELSE details[f]]

\* { name, ...detailedInfo }: the keys of details override the listing's
MergePerListing(listing, details) ==
    [f \in {"name"} \cup DOMAIN details |->
        IF f \in DOMAIN details THEN details[f] ELSE listing.name]

\* { ...listing, ...detailedInfo }
MergeSinglePage(listing, details) ==
    [f \in {"name", "index"} \cup DOMAIN details |->
        IF f \in DOMAIN details THEN details[f] ELSE listing[f]]

\* a field of the request's body: absent, or the text sent
SampleFields == {<<>>, <<"">>, <<"coffee">>}

\* !field: the field is undefined or the empty string
Falsy(field) == field = <<>> \/ field[1] = ""

\* a faulty variant: only the query is required
QueryMissing(query, location) == Falsy(query)

\* !query || !location
Missing(query, location) == Falsy(query) \/ Falsy(location)

\* app.post('/api/scrape'): the body is checked, then the scrape starts
PostScrape ==
    /\ pc = "idle"
    /\ \E query \in SampleFields, location \in SampleFields, lim \in 1..MaxScrapeLimit :
          /\ request' = [query |-> query, location |-> location]
          /\ IF Missing(query, location)
             THEN /\ response' = [status |-> 400, success |-> FALSE, data |-> <<>>]
                  /\ pc' = "done"
                  /\ UNCHANGED limit
             ELSE /\ limit' = lim
                  /\ pc' = "launch"
                  /\ UNCHANGED response
    /\ UNCHANGED <<variant, sideVars, waited, browser, discoveryVars, listingVars,
                   singlePageVars, thrown>>

\* launch of the browser.  The per-listing variant launches inside its try
\* block; the single-page variant launches before it.
Launch ==
    /\ pc = "launch"
    /\ \E ok \in BOOLEAN :
          IF ok
          THEN browser' = "open" /\ pc' = "setup" /\ UNCHANGED thrown
          ELSE /\ thrown' = "launch"
               /\ pc' = IF variant = "perListing" THEN "finally" ELSE "rejected"
               /\ UNCHANGED browser
    /\ UNCHANGED <<variant, request, sideVars, waited, limit, discoveryVars, listingVars, singlePageVars, response>>

\* browser.newPage and the configuration of the search page; in the
\* single-page variant these run before the try block.
OpenSearchPage ==
    /\ pc = "setup"
    /\ \E ok \in BOOLEAN :
          IF ok
          THEN pc' = "search" /\ UNCHANGED thrown
          ELSE /\ thrown' = "setup"
               /\ pc' = IF variant = "perListing" THEN "finally" ELSE "rejected"
    /\ UNCHANGED <<variant, request, sideVars, waited, limit, browser, discoveryVars, listingVars, singlePageVars,
                   response>>

\* a listing element of the single-page variant's feed
FeedItem(aria, heading, text) == [aria |-> aria, heading |-> heading, text |-> text]

SampleItems ==
    {FeedItem(<<"A">>, <<>>, <<>>),
     FeedItem(<<>>, << <<" ", "H">> >>, <<"x">>),
     FeedItem(<<>>, <<>>, <<>>)}

SampleItemLists ==
    {<<>>} \cup {<<a>> : a \in SampleItems} \cup {<<a, b>> : a, b \in SampleItems}

\* getListingsCount: the number of listing elements rendered
getListingsCount(items) == Len(items)

\* goto the map, wait for the search box, type the query, press Enter and
\* wait for the results.  The single-page variant then counts the listings.
Search ==
    /\ pc = "search"
    /\ \E outcome \in {"ok", "goto", "searchbox", "type"} :
          IF outcome = "ok"
          THEN /\ UNCHANGED thrown
               /\ IF variant = "perListing"
                  THEN pc' = "discover" /\ UNCHANGED singlePageVars
                  ELSE /\ pc' = "scroll"
                       /\ feedItems' \in SampleItemLists
                       /\ listingsCount' = getListingsCount(feedItems')
                       /\ UNCHANGED <<previousCount, businessListings>>
          ELSE /\ thrown' = outcome
               /\ pc' = "finally"
               /\ UNCHANGED singlePageVars
    /\ UNCHANGED <<variant, request, sideVars, waited, limit, browser, discoveryVars, listingVars, response>>

maxScrollAttemptsSinglePage == 20

\* a faulty variant: the loop goes on when a scroll changed nothing
ScrollCondNoProgressTest ==
    /\ listingsCount < limit
    /\ scrollAttempts < maxScrollAttemptsSinglePage

\* listingsCount < limit && scrollAttempts < maxScrollAttempts &&
\* listingsCount !== previousCount
ScrollCond ==
    /\ listingsCount < limit
    /\ scrollAttempts < maxScrollAttemptsSinglePage
    /\ listingsCount # previousCount

\* the feed a scroll can leave: the elements rendered and some more, or
\* the elements rendered but the last
FeedsAfter(items) ==
    {items \o more : more \in SampleItemLists}
    \cup {SubSeq(items, 1, Len(items) - 1) : drop \in {1}}

\* One turn of the single-page variant's scroll loop: scroll, count again.
ScrollForMore ==
    /\ pc = "scroll"
    /\ variant = "singlePage"
    /\ ScrollCond
    /\ \E ok \in BOOLEAN :
          IF ok
          THEN /\ previousCount' = listingsCount
               /\ feedItems' \in FeedsAfter(feedItems)
               /\ listingsCount' = getListingsCount(feedItems')
               /\ scrollAttempts' = scrollAttempts + 1
               /\ UNCHANGED <<pc, thrown>>
          ELSE /\ thrown' = "scroll"
               /\ pc' = "finally"
               /\ UNCHANGED <<previousCount, feedItems, listingsCount, scrollAttempts>>
    /\ UNCHANGED <<variant, request, sideVars, waited, limit, browser, listingUrls, consecutiveNoNewUrls, iterations,
                   harvestedAny, dupHarvested, exposed, lastGrowth, scrollWaits, listingVars,
                   businessListings,
                   response>>

\* the name of one listing element: aria-label, else its heading's trimmed
\* text, else the first line of its trimmed text
ItemName(item) ==
    LET byHeading == IF item.aria # <<>> THEN item.aria
                     ELSE IF item.heading # <<>> THEN Trim(item.heading[1]) ELSE <<>>
    IN  IF byHeading # <<>> THEN byHeading ELSE Trim(FirstLine(Trim(item.text)))

\* a faulty variant: every element is taken, whatever maxResults
RECURSIVE collectListingsNoCap(_, _, _)
collectListingsNoCap(items, maxResults, n) ==
    IF n >= Len(items) THEN <<>>
    ELSE IF ItemName(items[n + 1]) # <<>>
         THEN <<[name |-> ItemName(items[n + 1]), index |-> n]>>
              \o collectListingsNoCap(items, maxResults, n + 1)
         ELSE collectListingsNoCap(items, maxResults, n + 1)

\* collectListings: the first maxResults elements that have a name, each
\* with its position (0-based) among the elements
RECURSIVE collectListings(_, _, _)
collectListings(items, maxResults, n) ==
    IF n >= Len(items) \/ n >= maxResults THEN <<>>
    ELSE IF ItemName(items[n + 1]) # <<>>
         THEN <<[name |-> ItemName(items[n + 1]), index |-> n]>>
              \o collectListings(items, maxResults, n + 1)
         ELSE collectListings(items, maxResults, n + 1)

\* The scroll loop ended: collect the basic listing information.  The
\* counters of the loop are not read again.
CollectBasic ==
    /\ pc = "scroll"
    /\ variant = "singlePage"
    /\ ~ScrollCond
    /\ scrollAttempts' = 0
    /\ listingsCount' = 0
    /\ previousCount' = 0
    /\ \E ok \in BOOLEAN :
          IF ok
          THEN /\ businessListings' = collectListings(feedItems, limit, 0)
               /\ pc' = "listings"
               /\ UNCHANGED thrown
          ELSE /\ thrown' = "collect"
               /\ pc' = "finally"
               /\ UNCHANGED businessListings
    /\ UNCHANGED <<variant, request, sideVars, waited, limit, browser, listingUrls,
                   consecutiveNoNewUrls, iterations, harvestedAny, dupHarvested, exposed,
                   lastGrowth, scrollWaits, listingVars, feedItems, response>>

\* the bounds of the delay between businesses
minDelay == 2000

maxDelay == 5000

\* values of Math.random(), in thousandths
SampleRandoms == {0, 999}

\* Math.floor(Math.random() * (max - min)) + min, random in thousandths
randomDelay(random, min, max) == (random * (max - min)) \div 1000 + min

\* where the body of the per-listing loop can throw, per-listing variant
PerListingFaults == {"none", "newPage", "goto", "extract", "close"}

\* a faulty variant: the record is pushed whatever happened to the listing
RecordedAlways(fault) == TRUE

\* the push of the record is reached when nothing before it threw
Recorded(fault) == fault \in {"none", "close"}

\* a faulty variant: a listing that failed is tried a second time
RetryListing(k, fault) ==
    IF Recorded(fault) \/ Len(attempts) > k THEN k + 1 ELSE k

\* i++ of the for loop, reached at the end of the body and by the continue
\* of the catch: the next listing, whatever happened to this one
NextListing(k, fault) == k + 1

\* a faulty variant: no try/catch around the body of the loop, so that a
\* listing's exception leaves scrapeGoogleMaps
ProcessListingRethrows ==
    /\ pc = "listings"
    /\ variant = "perListing"
    /\ i < Len(listingUrls)
    /\ \E fault \in PerListingFaults :
          /\ detailedData' =
                IF Recorded(fault)
                THEN Push(detailedData,
                          MergePerListing(listingUrls[i + 1],
                                          ScrapeDetails[NameAndRatingPage]))
                ELSE detailedData
          /\ openPages' = IF fault \notin {"newPage", "none"} THEN openPages \cup {i}
                          ELSE openPages
          /\ closedPages' = IF fault = "none" THEN closedPages \cup {i} ELSE closedPages
          /\ attempts' = Append(attempts, fault)
          /\ thrown' = IF fault = "none" THEN thrown ELSE "listing"
          /\ pc' = IF fault = "none" THEN pc ELSE "finally"
    /\ i' = i + 1
    /\ UNCHANGED <<variant, request, sideVars, waited, limit, browser, discoveryVars, singlePageVars, clickedAt, detailPage,
                   queried, response>>

\* One pass of the for loop of the per-listing variant: open a page for the
\* listing, go to its url, extract, push the record, close the page, wait.
\* An exception anywhere is caught and the loop goes on.
ProcessListing ==
    /\ pc = "listings"
    /\ variant = "perListing"
    /\ i < Len(listingUrls)
    /\ \E random \in SampleRandoms, fault \in PerListingFaults, page \in ScrapePages :
          LET opened == fault # "newPage"
              extracted == Recorded(fault)
              closed == fault = "none"
          IN  /\ extracted \/ page = NameAndRatingPage
              /\ detailedData' =
                    IF extracted
                    THEN Push(detailedData,
                              MergePerListing(listingUrls[i + 1], ScrapeDetails[page]))
                    ELSE detailedData
              /\ detailPage' = IF extracted THEN page ELSE detailPage
              /\ queried' = IF extracted THEN ScrapeQueried[page] ELSE queried
              /\ openPages' = IF opened /\ ~closed THEN openPages \cup {i} ELSE openPages
              /\ closedPages' = IF closed THEN closedPages \cup {i} ELSE closedPages
              /\ attempts' = Append(attempts, fault)
              /\ i' = NextListing(i, fault)
              /\ fault # "none" => random = 0
              /\ waited' = IF fault = "none"
                           THEN randomDelay(random, minDelay, maxDelay) ELSE 0
    /\ UNCHANGED <<variant, request, sideVars, pc, limit, browser, discoveryVars, singlePageVars, clickedAt, thrown,
                   response>>

\* where the body of the per-listing loop can end early, single-page variant
SinglePageFaults == {"none", "goto", "noClick", "extract"}

\* Strategy 2, page.evaluate(..., selector, i): the position handed to the
\* click by index is the counter of the loop
IndexPassed(k, listing) == k

\* One pass of the for loop of the single-page variant: go back to the
\* results (from the second listing on), click the listing, extract, push
\* the record, wait.  A listing that cannot be clicked is skipped; an
\* exception anywhere is caught and the loop goes on.
ProcessListingSinglePage ==
    /\ pc = "listings"
    /\ variant = "singlePage"
    /\ i < Len(businessListings)
    /\ \E random \in SampleRandoms, fault \in SinglePageFaults, page \in ScrapePages,
          byIndex \in BOOLEAN :
          LET extracted == Recorded(fault)
          IN  /\ extracted \/ page = NameAndRatingPage
              /\ fault = "goto" => i > 0
              /\ byIndex => (fault \notin {"goto", "noClick"} /\ i < Len(feedItems))
              /\ clickedAt' = IF byIndex THEN IndexPassed(i, businessListings[i + 1]) ELSE -1
              /\ detailedData' =
                    IF extracted
                    THEN Push(detailedData,
                              MergeSinglePage(businessListings[i + 1], ScrapeDetails[page]))
                    ELSE detailedData
              /\ detailPage' = IF extracted THEN page ELSE detailPage
              /\ queried' = IF extracted THEN ScrapeQueried[page] ELSE queried
              /\ attempts' = Append(attempts, fault)
              /\ i' = NextListing(i, fault)
              /\ fault # "none" => random = 0
              /\ waited' = IF fault = "none"
                           THEN randomDelay(random, minDelay, maxDelay) ELSE 0
    /\ UNCHANGED <<variant, request, sideVars, pc, limit, browser, discoveryVars, singlePageVars, openPages,
                   closedPages, thrown, response>>

\* the listings of the running variant
Listings == IF variant = "perListing" THEN listingUrls ELSE businessListings

\* The for loop is over: return detailedData.
ReturnData ==
    /\ pc = "listings"
    /\ i >= Len(Listings)
    /\ pc' = "finally"
    /\ UNCHANGED <<variant, request, sideVars, waited, limit, browser, discoveryVars, listingVars, singlePageVars,
                   thrown, response>>

\* a faulty variant: the exception leaves without the browser being closed
FinallyOnReturnOnly ==
    /\ pc = "finally"
    /\ browser' = IF browser = "none" \/ thrown # "none" THEN browser ELSE "closed"
    /\ pc' = IF thrown = "none" THEN "returned" ELSE "rejected"
    /\ UNCHANGED <<variant, request, sideVars, waited, limit, discoveryVars, listingVars, singlePageVars, thrown,
                   response>>

\* The finally block: the per-listing variant closes the browser unless it
\* is null, the single-page variant closes it.
Finally ==
    /\ pc = "finally"
    /\ browser' = IF browser = "none" THEN browser ELSE "closed"
    /\ pc' = IF thrown = "none" THEN "returned" ELSE "rejected"
    /\ UNCHANGED <<variant, request, sideVars, waited, limit, discoveryVars, listingVars, singlePageVars, thrown,
                   response>>

\* The handler answers: the data on return, the 500 shape on an exception.
Respond ==
    /\ pc \in {"returned", "rejected"}
    /\ response' =
          IF pc = "returned"
          THEN [status |-> 200, success |-> TRUE, data |-> detailedData]
          ELSE [status |-> 500, success |-> FALSE, data |-> <<>>]
    /\ pc' = "done"
    /\ UNCHANGED <<variant, request, sideVars, waited, limit, browser, discoveryVars, listingVars, singlePageVars,
                   thrown>>

\* Lines 186-194 alone: extraction on a page and the push of the record.
ExtractAndRecord ==
    /\ pc = "extract"
    /\ detailedData' =
          Push(detailedData,
               IF variant = "perListing"
               THEN MergePerListing(listingUrls[i + 1], extractBusinessDetails(detailPage))
               ELSE MergeSinglePage(businessListings[i + 1],
                                    extractBusinessDetails(detailPage)))
    /\ queried' = StrategiesEvaluated(detailPage)
    /\ pc' = "extracted"
    /\ UNCHANGED <<variant, request, sideVars, waited, limit, browser, discoveryVars, singlePageVars, i, openPages,
                   closedPages, clickedAt, attempts, detailPage, thrown, response>>

--------------------------------------------------------------------------
(* Two requests served concurrently.  Every await of scrapeGoogleMaps and *)
(* collectListingUrls lets the other request's call run; the locals of a  *)
(* call (browser, searchPage, listingUrls, scrollAttempts) live in its     *)
(* own activation.                                                         *)

Requests == {1, 2}

\* let browser = null, and the locals of collectListingUrls
NewCall ==
    [pc |-> "idle", browser |-> 0, searchPage |-> 0, listingUrls |-> <<>>,
     scrollAttempts |-> 0]

NoCalls ==
    /\ calls = [r \in Requests |-> NewCall]
    /\ browsers = <<>>
    /\ pages = <<>>

\* a faulty variant: one browser kept by the module and handed to every call
SharedBrowser(launched) == 1

\* puppeteerCore.launch: a browser process of its own for each call
NewBrowser(launched) == launched + 1

\* the browsers once browser b has been launched
Launched(b) ==
    [k \in 1..(IF b > Len(browsers) THEN b ELSE Len(browsers)) |->
        IF k = b THEN "open" ELSE browsers[k]]

\* the call starts: scrapeGoogleMaps(searchQuery, limit)
Scrape(r) ==
    /\ calls[r].pc = "idle"
    /\ calls' = [calls EXCEPT ![r].pc = "launch"]
    /\ UNCHANGED <<browsers, pages, notConcurrent>>

\* browser = await puppeteerCore.launch(...)
LaunchBrowser(r) ==
    /\ calls[r].pc = "launch"
    /\ \E ok \in BOOLEAN :
          IF ok
          THEN /\ calls' = [calls EXCEPT ![r].pc = "newPage",
                                         ![r].browser = NewBrowser(Len(browsers))]
               /\ browsers' = Launched(NewBrowser(Len(browsers)))
          ELSE /\ calls' = [calls EXCEPT ![r].pc = "finally"]
               /\ UNCHANGED <<browsers, notConcurrent>>
    /\ UNCHANGED <<pages, notConcurrent>>

\* const searchPage = await browser.newPage(); a closed browser throws
NewSearchPage(r) ==
    /\ calls[r].pc = "newPage"
    /\ IF browsers[calls[r].browser] = "open"
       THEN /\ pages' = Append(pages, calls[r].browser)
            /\ calls' = [calls EXCEPT ![r].pc = "collect",
                                      ![r].searchPage = Len(pages) + 1]
       ELSE /\ calls' = [calls EXCEPT ![r].pc = "finally"]
            /\ UNCHANGED <<pages, notConcurrent>>
    /\ UNCHANGED <<browsers, notConcurrent>>

\* One turn of the loop of collectListingUrls on the call's search page,
\* or its return; a page of a closed browser throws.
CollectUrls(r) ==
    /\ calls[r].pc = "collect"
    /\ IF browsers[pages[calls[r].searchPage]] # "open"
       THEN calls' = [calls EXCEPT ![r].pc = "finally"]
       ELSE IF /\ Len(calls[r].listingUrls) < MaxConcurrentLimit
               /\ calls[r].scrollAttempts < MaxConcurrentScrolls
            THEN \E found \in BOOLEAN :
                    calls' = [calls EXCEPT
                        ![r].listingUrls =
                            IF found THEN Append(@, Len(@) + 1) ELSE @,
                        ![r].scrollAttempts = @ + 1]
            ELSE calls' = [calls EXCEPT ![r].pc = "finally"]
    /\ UNCHANGED <<browsers, pages, notConcurrent>>

\* finally: if (browser !== null) await browser.close()
CloseBrowser(r) ==
    /\ calls[r].pc = "finally"
    /\ calls' = [calls EXCEPT ![r].pc = "done"]
    /\ browsers' =
          IF calls[r].browser # 0
          THEN [browsers EXCEPT ![calls[r].browser] = "closed"]
          ELSE browsers
    /\ UNCHANGED <<pages, notConcurrent>>

--------------------------------------------------------------------------
(* The export route and its encoders.  A payload is the table written:    *)
(* a header row and one row of cells per record.                          *)

\* const columns = [{ header, key, width }, ...] of exportToExcel
columns ==
    << [header |-> "Name", key |-> "name"],
       [header |-> "Address", key |-> "address"],
       [header |-> "Phone", key |-> "phone"],
       [header |-> "Website", key |-> "website"],
       [header |-> "Email", key |-> "email"],
       [header |-> "Rating", key |-> "rating"],
       [header |-> "Reviews", key |-> "reviews"],
       [header |-> "Hours", key |-> "hours"],
       [header |-> "Category", key |-> "category"],
       [header |-> "Price Range", key |-> "priceRange"],
       [header |-> "Attributes", key |-> "attributes"] >>

\* const fields = [...] of exportToCSV, per-listing variant
fieldsPerListing ==
    << "name", "address", "phone", "website", "email", "rating", "reviews",
       "hours", "category", "priceRange", "attributes" >>

\* const fields = [...] of exportToCSV, single-page variant
fieldsSinglePage ==
    << "name", "address", "phone", "website", "email", "rating", "reviews",
       "hours", "category" >>

fields == IF variant = "perListing" THEN fieldsPerListing ELSE fieldsSinglePage

\* the cell written for a key of a record: its value, empty when the
\* record lacks the key
Cell(record, key) == IF key \in DOMAIN record THEN record[key] ELSE <<>>

\* worksheet.columns = columns; worksheet.addRows(data)
exportToExcel(data) ==
    << [c \in 1..Len(columns) |-> <<columns[c].header>>] >> \o
    [k \in 1..Len(data) |-> [c \in 1..Len(columns) |-> Cell(data[k], columns[c].key)]]

\* new Parser({ fields }).parse(data)
exportToCSV(data) ==
    << [c \in 1..Len(fields) |-> <<fields[c]>>] >> \o
    [k \in 1..Len(data) |-> [c \in 1..Len(fields) |-> Cell(data[k], fields[c])]]

\* JSON.stringify(data, null, 2): each record as its key/value pairs
Stringify(data) ==
    [k \in 1..Len(data) |-> {<<key, data[k][key]>> : key \in DOMAIN data[k]}]

\* a record whose eleven values differ from field to field
Labelled(tag) == [f \in FieldNames |-> <<tag, f>>]

\* a record with a name and a rating only
Partial == [name |-> Joe, rating |-> <<"3">>]

\* the data of an export request: absent, or a sequence of records
SampleData ==
    {<<>>, << <<>> >>, << <<Labelled("1")>> >>, << <<Partial>> >>,
     << <<Labelled("1"), Labelled("2")>> >>, << <<Labelled("2"), Partial>> >>}

\* the format of an export request: absent, or the text sent
SampleFormats == {<<>>, <<"">>, <<"xlsx">>, <<"csv">>, <<"json">>, <<"pdf">>}

NoExportResponse == [status |-> 0, contentType |-> "", body |-> <<>>]

NoExport ==
    /\ exportRequest = [data |-> <<>>, format |-> <<>>]
    /\ exportResponse = NoExportResponse

\* a faulty variant: every payload is sent as delimited text
ContentTypeCsvAlways(format) == "text/csv"

\* contentType = ... of the branch taken for the format
ContentType(format) ==
    CASE format = "xlsx" ->
            "application/vnd.openxmlformats-officedocument.spreadsheetml.sheet"
      [] format = "csv" -> "text/csv"
      [] format = "json" -> "application/json"

\* exportedData = ... of the branch taken for the format
Exported(data, format) ==
    CASE format = "xlsx" -> exportToExcel(data)
      [] format = "csv" -> exportToCSV(data)
      [] format = "json" -> Stringify(data)

\* res.status(400).json({ error })
ClientError == [status |-> 400, contentType |-> "application/json", body |-> <<>>]

\* app.post('/api/export'): the body is checked, the branch of the format
\* encodes the data, the payload is sent with its content type
PostExport ==
    /\ exportResponse = NoExportResponse
    /\ exportResponse' =
          IF Falsy(exportRequest.format) \/ exportRequest.data = <<>>
          THEN ClientError
          ELSE IF exportRequest.format[1] \in {"xlsx", "csv", "json"}
               THEN [status |-> 200,
                     contentType |-> ContentType(exportRequest.format[1]),
                     body |-> <<Exported(exportRequest.data[1], exportRequest.format[1])>>]
               ELSE ClientError
    /\ UNCHANGED <<exportRequest, notExport>>

--------------------------------------------------------------------------
(* One harvest of discovery on a feed where several selectors match.      *)

\* what document.querySelectorAll can give for one selector
SampleMatches ==
    {<<>>, <<Labeled(1)>>, <<Labeled(2), Labeled(3)>>,
     <<Link(-1, <<"A">>, <<>>, <<>>, <<>>)>>}

\* the number of selectors passed to document.querySelectorAll before the
\* loop ends: it breaks at the first that gives elements
RECURSIVE SelectorsQueried(_, _)
SelectorsQueried(dom, n) ==
    IF n >= Len(listingLinkSelectors) \/ dom[n] # <<>> THEN n
    ELSE SelectorsQueried(dom, n + 1)

NoHarvest == harvest = [dom |-> <<>>, newUrls |-> <<>>, queried |-> 0]

\* const newUrls = await page.evaluate(...)
Harvest ==
    /\ harvest.queried = 0
    /\ harvest' = [harvest EXCEPT !.newUrls = HarvestVisible(harvest.dom),
                                  !.queried = SelectorsQueried(harvest.dom, 1)]
    /\ UNCHANGED notHarvest

--------------------------------------------------------------------------
(* The web client: the submit handler of the form, exportData and the     *)
(* auto-hide timers of the status alert.                                   *)

\* auto-hide timers that can be pending together
MaxTimers == 2

\* the formats of the three export buttons' click handlers
Formats == {"xlsx", "csv", "json"}

\* the ids of the export buttons in the page
ButtonIds == {"export-excel", "export-csv", "export-json"}

\* the button whose click handler calls exportData(format)
ClickedButton(format) ==
    CASE format = "xlsx" -> "export-excel"
      [] format = "csv" -> "export-csv"
      [] format = "json" -> "export-json"

\* `export-${format}`
ExportBtnId(format) ==
    CASE format = "xlsx" -> "export-xlsx"
      [] format = "csv" -> "export-csv"
      [] format = "json" -> "export-json"

\* the text of an export button in the page
OriginalText(id) ==
    CASE id = "export-excel" -> "Export to Excel"
      [] id = "export-csv" -> "Export to CSV"
      [] id = "export-json" -> "Export to JSON"

\* the status alert of the page as loaded: class d-none
Alert(hidden, className, by) == [hidden |-> hidden, className |-> className, by |-> by]

\* the page after DOMContentLoaded
PageLoaded ==
    /\ scrapeButton = "enabled"
    /\ resultsSection = "hidden"
    /\ scrapedData = 0
    /\ statusAlert = Alert(TRUE, "alert-warning", "page")
    /\ timers = 0
    /\ exportBtns = [id \in ButtonIds |-> [disabled |-> FALSE, text |-> OriginalText(id)]]
    /\ inFlight = {}
    /\ handled = {}
    /\ unhandled = {}

\* the submit handler up to its fetch: the loading state is shown
Submit ==
    /\ scrapeButton = "enabled"
    /\ scrapeButton' = "disabled"
    /\ resultsSection' = "hidden"
    /\ statusAlert' = Alert(FALSE, "alert-warning", "scrape")
    /\ UNCHANGED <<scrapedData, timers, exportBtns, inFlight, handled, unhandled, notClient>>

\* the submit handler from the response of /api/scrape on: the results and
\* the success message with its timer, or the error message; then finally
ScrapeAnswered ==
    /\ scrapeButton = "disabled"
    /\ \E outcome \in {"ok", "httpError", "networkError"}, records \in {0, 1} :
          IF outcome = "ok"
          THEN /\ timers < MaxTimers
               /\ scrapedData' = records
               /\ resultsSection' = "shown"
               /\ statusAlert' = Alert(FALSE, "alert-success", "scrape")
               /\ timers' = timers + 1
          ELSE /\ records = 0
               /\ statusAlert' = Alert(FALSE, "alert-danger", "scrape")
               /\ UNCHANGED <<scrapedData, resultsSection, timers>>
    /\ scrapeButton' = "enabled"
    /\ UNCHANGED <<exportBtns, inFlight, handled, unhandled, notClient>>

\* setTimeout(() => statusAlert.classList.add('d-none'), ...)
AlertHidden(alert) == [alert EXCEPT !.hidden = TRUE]

\* one of the pending timers fires
TimerFires ==
    /\ timers > 0
    /\ timers' = timers - 1
    /\ statusAlert' = AlertHidden(statusAlert)
    /\ UNCHANGED <<scrapeButton, resultsSection, scrapedData, exportBtns, inFlight, handled,
                   unhandled, notClient>>

\* exportData(format) up to its fetch.  With no data it returns at once.
\* document.getElementById(`export-${format}`) is null for xlsx: reading
\* its textContent throws inside the try, the catch shows the error, and
\* the finally block throws again on the null button.
ExportClicked(format) ==
    /\ resultsSection = "shown"
    /\ ~exportBtns[ClickedButton(format)].disabled
    /\ format \notin inFlight
    /\ IF scrapedData = 0
       THEN UNCHANGED <<statusAlert, exportBtns, inFlight, unhandled>>
       ELSE IF ExportBtnId(format) \notin ButtonIds
            THEN /\ statusAlert' = Alert(FALSE, "alert-danger", "export")
                 /\ unhandled' = unhandled \cup {format}
                 /\ UNCHANGED <<exportBtns, inFlight>>
            ELSE /\ exportBtns' = [exportBtns EXCEPT ![ExportBtnId(format)] =
                                      [disabled |-> TRUE, text |-> "Exporting..."]]
                 /\ inFlight' = inFlight \cup {format}
                 /\ UNCHANGED <<statusAlert, unhandled>>
    /\ UNCHANGED <<scrapeButton, resultsSection, scrapedData, timers, handled, notClient>>

\* finally: exportBtn.disabled = false runs, then exportBtn.textContent =
\* originalText throws, originalText being a const of the try block
ButtonAfterFinally(button) == [button EXCEPT !.disabled = FALSE]

\* exportData(format) from the response of /api/export on: the download
\* and the success message with its timer, or the error message; then
\* finally, whose ReferenceError leaves exportData
ExportAnswered(format) ==
    /\ format \in inFlight
    /\ \E outcome \in {"ok", "httpError", "networkError"} :
          IF outcome = "ok"
          THEN /\ timers < MaxTimers
               /\ statusAlert' = Alert(FALSE, "alert-success", "export")
               /\ timers' = timers + 1
          ELSE /\ statusAlert' = Alert(FALSE, "alert-danger", "export")
               /\ UNCHANGED timers
    /\ exportBtns' = [exportBtns EXCEPT ![ExportBtnId(format)] = ButtonAfterFinally(@)]
    /\ inFlight' = inFlight \ {format}
    /\ handled' = handled \cup {format}
    /\ unhandled' = unhandled \cup {format}
    /\ UNCHANGED <<scrapeButton, resultsSection, scrapedData, notClient>>

--------------------------------------------------------------------------
(* Specifications *)

\* nothing collected, nothing processed
Fresh ==
    /\ scrollAttempts = 0
    /\ consecutiveNoNewUrls = 0
    /\ iterations = 0
    /\ harvestedAny = FALSE
    /\ dupHarvested = FALSE
    /\ exposed = 0
    /\ lastGrowth = 0
    /\ scrollWaits = <<>>
    /\ i = 0
    /\ detailedData = <<>>
    /\ openPages = {}
    /\ closedPages = {}
    /\ clickedAt = -1
    /\ attempts = <<>>
    /\ queried = [f \in FieldNames |-> 0]
    /\ feedItems = <<>>
    /\ listingsCount = 0
    /\ previousCount = 0
    /\ thrown = "none"
    /\ response = NoResponse
    /\ waited = 0

\* a server of either variant awaiting a request
Init ==
    /\ variant \in {"perListing", "singlePage"}
    /\ pc = "idle"
    /\ request = [query |-> <<>>, location |-> <<>>]
    /\ limit = 0
    /\ browser = "none"
    /\ detailPage = EmptyPage
    /\ listingUrls = <<>>
    /\ businessListings = <<>>
    /\ Fresh
    /\ NoCalls
    /\ NoExport
    /\ NoHarvest
    /\ PageLoaded

Next ==
    \/ PostScrape
    \/ Launch
    \/ OpenSearchPage
    \/ Search
    \/ DiscoverIteration
    \/ DiscoverReturn
    \/ DiscoverThrows
    \/ ScrollForMore
    \/ CollectBasic
    \/ ProcessListing
    \/ ProcessListingSinglePage
    \/ ReturnData
    \/ Finally
    \/ Respond

\* one scrape request, from the handler to its answer
Spec == Init /\ [][Next]_vars

InitDiscover ==
    /\ variant = "perListing"
    /\ pc = "discover"
    /\ request = [query |-> <<"coffee">>, location |-> <<"coffee">>]
    /\ limit \in 1..MaxLimit
    /\ browser = "open"
    /\ detailPage = EmptyPage
    /\ listingUrls = <<>>
    /\ businessListings = <<>>
    /\ Fresh
    /\ NoCalls
    /\ NoExport
    /\ NoHarvest
    /\ PageLoaded

NextDiscover == DiscoverIteration \/ DiscoverReturn \/ DiscoverThrows

\* collectListingUrls called on a search page, for every limit 1..MaxLimit
SpecDiscover == InitDiscover /\ [][NextDiscover]_vars

InitExtract ==
    /\ variant \in {"perListing", "singlePage"}
    /\ pc = "extract"
    /\ request = [query |-> <<"coffee">>, location |-> <<"coffee">>]
    /\ limit = 1
    /\ browser = "open"
    /\ detailPage \in SamplePages \cup ScrapePages \cup {FullPage, NamelessAttributesPage}
    /\ listingUrls = <<[name |-> <<"A">>, url |-> 1]>>
    /\ businessListings = <<[name |-> <<"A">>, index |-> 0]>>
    /\ Fresh
    /\ NoCalls
    /\ NoExport
    /\ NoHarvest
    /\ PageLoaded

NextExtract == ExtractAndRecord

\* extraction on every sample page, for a listing named "A"
SpecExtract == InitExtract /\ [][NextExtract]_vars

\* two requests arrive at a server of the per-listing variant
InitConcurrent ==
    /\ variant = "perListing"
    /\ pc = "idle"
    /\ request = [query |-> <<>>, location |-> <<>>]
    /\ limit = 0
    /\ browser = "none"
    /\ detailPage = EmptyPage
    /\ listingUrls = <<>>
    /\ businessListings = <<>>
    /\ Fresh
    /\ NoCalls
    /\ NoExport
    /\ NoHarvest
    /\ PageLoaded

NextConcurrent ==
    \E r \in Requests :
        \/ Scrape(r)
        \/ LaunchBrowser(r)
        \/ NewSearchPage(r)
        \/ CollectUrls(r)
        \/ CloseBrowser(r)

\* the calls of two requests, interleaved at their awaits
SpecConcurrent == InitConcurrent /\ [][NextConcurrent]_vars

\* a server of either variant is sent an export request
InitExport ==
    /\ variant \in {"perListing", "singlePage"}
    /\ pc = "idle"
    /\ request = [query |-> <<>>, location |-> <<>>]
    /\ limit = 0
    /\ browser = "none"
    /\ detailPage = EmptyPage
    /\ listingUrls = <<>>
    /\ businessListings = <<>>
    /\ Fresh
    /\ NoCalls
    /\ exportRequest \in [data : SampleData, format : SampleFormats]
    /\ exportResponse = NoExportResponse
    /\ NoHarvest
    /\ PageLoaded

NextExport == PostExport

\* the export route on every sample request
SpecExport == InitExport /\ [][NextExport]_vars

\* a feed is rendered and the harvest of an iteration is about to run
InitHarvest ==
    /\ variant = "perListing"
    /\ pc = "discover"
    /\ request = [query |-> <<"coffee">>, location |-> <<"coffee">>]
    /\ limit = 1
    /\ browser = "open"
    /\ detailPage = EmptyPage
    /\ listingUrls = <<>>
    /\ businessListings = <<>>
    /\ Fresh
    /\ NoCalls
    /\ NoExport
    /\ harvest \in [dom : [1..Len(listingLinkSelectors) -> SampleMatches],
                    newUrls : {<<>>}, queried : {0}]
    /\ PageLoaded

NextHarvest == Harvest

\* the page.evaluate of one iteration on every sample feed
SpecHarvest == InitHarvest /\ [][NextHarvest]_vars

\* the page of the web client has loaded
InitClient ==
    /\ variant = "perListing"
    /\ pc = "idle"
    /\ request = [query |-> <<>>, location |-> <<>>]
    /\ limit = 0
    /\ browser = "none"
    /\ detailPage = EmptyPage
    /\ listingUrls = <<>>
    /\ businessListings = <<>>
    /\ Fresh
    /\ NoCalls
    /\ NoExport
    /\ NoHarvest
    /\ PageLoaded

NextClient ==
    \/ Submit
    \/ ScrapeAnswered
    \/ TimerFires
    \/ \E format \in Formats : ExportClicked(format)
    \/ \E format \in Formats : ExportAnswered(format)

\* the user's clicks, the server's answers and the timers, in any order
SpecClient == InitClient /\ [][NextClient]_vars

--------------------------------------------------------------------------
(* Claims *)

\* C1: for every feed and every limit >= 1, collectListingUrls never holds
\* and never returns more than limit references.
C1_AtMostLimit == limit >= 1 => Len(listingUrls) <= limit

C1_Witness == pc = "listings" /\ limit >= 2 /\ Len(listingUrls) = limit

\* C2: in every state of the discovery loop and in the sequence it returns,
\* no two collected references have the same url.
C2_NoDuplicateLocators ==
    \A a, b \in 1..Len(listingUrls) :
        a # b => listingUrls[a].url # listingUrls[b].url

C2_Witness == pc = "discover" /\ ~LoopCond /\ dupHarvested /\ Len(listingUrls) >= 2

\* C3: discovery ends after at most maxScrollAttempts loop iterations
\* whatever the feed yields, and a feed that never yields a listing makes it
\* leave the loop with nothing collected after at most
\* maxConsecutiveNoNewUrls iterations, and return the empty sequence.
C3_BoundedIterations ==
    /\ iterations <= maxScrollAttempts
    /\ (pc = "discover" /\ ~LoopCond /\ ~harvestedAny) =>
          /\ Slice0(listingUrls, limit) = <<>>
          /\ iterations <= maxConsecutiveNoNewUrls

C3_Witness ==
    pc = "discover" /\ ~LoopCond /\ iterations = maxScrollAttempts /\ Len(listingUrls) < limit

\* the record pushed for the page handed to extraction
Record == detailedData[Len(detailedData)]

\* C4: every record of the result has each of the eleven fields as a key,
\* and the record of a page that shows a name and a rating only has "N/A"
\* in the nine other fields.
C4_FixedWidthRecord ==
    \A k \in 1..Len(detailedData) :
        /\ FieldNames \subseteq DOMAIN detailedData[k]
        /\ detailPage = NameAndRatingPage =>
              \A f \in FieldNames \ {"name", "rating"} : detailedData[k][f] = NA

\* the faults that end a listing before its record is pushed: a throw of
\* the page setup, of the navigation, of the click or of the extraction
FailedBeforeRecord == {"newPage", "goto", "noClick", "extract"}

\* the listings (0-based), from the k-th attempt on, that did not fail so
RECURSIVE SucceededFrom(_)
SucceededFrom(k) ==
    IF k > Len(attempts) THEN <<>>
    ELSE (IF attempts[k] \in FailedBeforeRecord THEN <<>> ELSE <<k - 1>>)
         \o SucceededFrom(k + 1)

\* C5: a listing whose navigation or extraction throws adds no record, the
\* other listings each add one, in order, and the loop goes on to the last
\* listing: when it is over every discovered listing was attempted.
C5_FailedListingSkipped ==
    /\ Len(detailedData) = Len(SucceededFrom(1))
    /\ variant = "singlePage" =>
          \A j \in 1..Len(detailedData) :
              detailedData[j].index = businessListings[SucceededFrom(1)[j] + 1].index
    /\ (thrown = "none" /\ pc \in {"finally", "returned", "done"}) =>
          Len(attempts) = Len(Listings)

C5_Witness ==
    /\ pc = "done"
    /\ attempts = <<"none", "goto", "none">>
    /\ Len(response.data) = 2

\* C6: in the per-listing variant, once a listing's pass has ended, by
\* success or by an exception of the page setup, the navigation or the
\* extraction, the detail page opened for it is not open any more.
C6_DetailPageClosed ==
    \A k \in 1..Len(attempts) :
        attempts[k] \in {"none", "newPage", "goto", "extract"} => (k - 1) \notin openPages

\* C7: a call of scrapeGoogleMaps that launched a browser and has ended, by
\* return or by exception, has closed the browser.
C7_BrowserAlwaysClosed ==
    (pc \in {"returned", "rejected", "done"} /\ browser # "none") => browser = "closed"

\* C8: when the wait for the search box times out, no listing is processed,
\* the call ends by exception with the browser closed, and the handler
\* answers with the 500 shape, never with success.
C8_SearchBoxTimeoutFailsRun ==
    thrown = "searchbox" =>
        /\ pc \in {"finally", "rejected", "done"}
        /\ i = 0 /\ attempts = <<>> /\ detailedData = <<>>
        /\ pc # "finally" => browser = "closed"
        /\ ~response.success
        /\ pc = "done" => response = [status |-> 500, success |-> FALSE, data |-> <<>>]

C8_Witness ==
    thrown = "searchbox" /\ pc = "done" /\ browser = "closed" /\ response.status = 500

\* C9: once the launch, the search and the discovery have succeeded, no
\* fault of a listing makes the call throw: the run goes on to its end and
\* the handler answers success with the records of the listings that did
\* not fail, whether some or all of them failed.
C9_ListingFaultsNeverFailRun ==
    (pc = "listings" \/ Len(attempts) > 0) =>
        /\ thrown = "none"
        /\ pc \in {"listings", "finally", "returned", "done"}
        /\ pc = "done" =>
              /\ response = [status |-> 200, success |-> TRUE, data |-> detailedData]
              /\ Len(response.data) = Len(SucceededFrom(1))

C9_Witness ==
    /\ pc = "done"
    /\ Len(attempts) = 2
    /\ \A k \in 1..Len(attempts) : attempts[k] \in FailedBeforeRecord
    /\ response.success
    /\ response.data = <<>>

\* the number of strategies of each field's rule: its selectors, and where
\* it has one its scan of the page (the spans for the rating, the text of
\* the page for the reviews and the category, whose two patterns are matched
\* together; the one container scan of the reviews counts as one strategy)
Strategies(f) ==
    CASE f = "name" -> Len(nameSelectors)
      [] f = "address" -> Len(addressSelectors)
      [] f = "phone" -> Len(phoneSelectors)
      [] f = "website" -> Len(websiteSelectors)
      [] f = "rating" -> Len(ratingSelectors) + 1
      [] f = "reviews" -> 2
      [] f = "hours" -> Len(hoursTableSelectors) + Len(hoursSelectors)
      [] f = "email" -> 1
      [] f = "category" -> Len(categorySelectors) + 1
      [] f = "attributes" -> Len(attributeSelectors)
      [] f = "priceRange" -> Len(priceSelectors)

Least(S) == CHOOSE x \in S : \A y \in S : x <= y

Greatest(S) == CHOOSE x \in S : \A y \in S : x >= y

\* What strategy k of field f yields on the page, taken alone: <<v>> when it
\* finds a value v that passes the field's validation, <<>> when it does
\* not.  rec is the record, for the values an attribute has to differ from.
Yield(page, rec, f, k) ==
    CASE f = "name" ->
            IF page.nameEls[k] = <<>> THEN <<>> ELSE <<Trim(page.nameEls[k][1])>>
      [] f = "address" ->
            IF page.addressEls[k] = <<>> THEN <<>>
            ELSE <<AddressValue(page.addressEls[k][1])>>
      [] f = "phone" ->
            IF page.phoneEls[k] = <<>> THEN <<>> ELSE <<PhoneValue(page.phoneEls[k][1])>>
      [] f = "website" ->
            IF page.websiteEls[k] = <<>> THEN <<>>
            ELSE <<WebsiteValue(page.websiteEls[k][1])>>
      [] f = "priceRange" ->
            IF page.priceEls[k] = <<>> THEN <<>> ELSE <<PriceValue(page.priceEls[k][1])>>
      [] f = "rating" ->
            IF k <= Len(ratingSelectors)
            THEN IF RatingHit(page.ratingEls[k]) THEN <<Trim(page.ratingEls[k][1])>> ELSE <<>>
            ELSE LET ok == {n \in 1..Len(page.spans) : RatingSpanHit(page.spans[n])}
                 IN  IF ok = {} THEN <<>> ELSE <<Trim(page.spans[Least(ok)])>>
      [] f = "reviews" ->
            IF k = 1
            THEN LET ok == {n \in 1..Len(page.reviewContainers) :
                               ReviewsBefore(page.reviewContainers[n]) # <<>>}
                 IN  IF ok = {} THEN <<>>
                     ELSE ReviewsBefore(page.reviewContainers[Least(ok)])
            ELSE IF ReviewsBefore(page.bodyText) # <<>> THEN ReviewsBefore(page.bodyText)
                 ELSE ReviewsAfter(page.bodyText)
      [] f = "hours" ->
            IF k <= Len(hoursTableSelectors)
            THEN IF HoursTableHit(page.hoursTables[k])
                 THEN <<Join(HoursRows(page.hoursTables[k][1]), <<";", " ">>)>>
                 ELSE <<>>
            ELSE LET section == page.hoursSections[k - Len(hoursTableSelectors)]
                 IN  IF section = <<>> THEN <<>> ELSE <<Trim(section[1])>>
      [] f = "email" -> EmailMatch(page.bodyText)
      [] f = "category" ->
            IF k <= Len(categorySelectors)
            THEN LET texts == page.categoryEls[k]
                     ok == {n \in 1..Len(texts) : CategoryTextOk(Trim(texts[n]), rec.website)}
                 IN  IF ok = {} THEN <<>> ELSE <<Trim(texts[Greatest(ok)])>>
            ELSE LET byCategory == PrefixedText(page.bodyText, CategoryColon)
                     byType == PrefixedText(page.bodyText, TypeColon)
                 IN  IF byCategory # <<>> THEN <<Trim(byCategory[1])>>
                     ELSE IF byType # <<>> THEN <<Trim(byType[1])>> ELSE <<>>
      [] f = "attributes" ->
            LET known == {rec.address, rec.phone, rec.website, rec.category}
                         \cup (IF \E n \in 1..Len(nameSelectors) : page.nameEls[n] # <<>>
                               THEN {rec.name} ELSE {})
                kept == AttributesAmong(page.attributeEls[k], known)
            IN  IF kept = <<>> THEN <<>> ELSE <<Join(kept, <<",", " ">>)>>

\* the yields of every strategy of every field on the page extracted
Yields ==
    [f \in FieldNames |-> [k \in 1..Strategies(f) |-> Yield(detailPage, Record, f, k)]]

\* The yield y of a strategy of field f counts as a value.  The text "N/A"
\* is what the category rule takes for nothing found yet: with sentinel it
\* is no value of the category.
Counts(y, f, sentinel) ==
    y # <<>> /\ ((sentinel /\ f = "category") => y[1] # NA)

\* strategy k of field f is the first one whose yield, among y, counts
FirstToYield(y, f, k, sentinel) ==
    /\ Counts(y[f][k], f, sentinel)
    /\ \A j \in 1..(k - 1) : ~Counts(y[f][j], f, sentinel)

\* C10 as stated: in every field's rule, the first strategy that yields a
\* validated value is the last one evaluated, and its value is the field's.
C10_ShortCircuitEveryField ==
    pc = "extracted" =>
        \A f \in FieldNames : \A k \in 1..Strategies(f) :
            FirstToYield(Yields, f, k, FALSE) =>
                queried[f] = k /\ Record[f] = Yields[f][k][1]

\* C10, amended: this holds of every field's rule but that of the
\* attributes, which evaluates each of its four selectors whatever the
\* earlier ones yielded, and for the category when the value differs from
\* the text "N/A".
C10_ShortCircuitButAttributes ==
    pc = "extracted" =>
        /\ \A f \in FieldNames \ {"attributes"} : \A k \in 1..Strategies(f) :
              FirstToYield(Yields, f, k, TRUE) =>
                  queried[f] = k /\ Record[f] = Yields[f][k][1]
        /\ queried["attributes"] = Len(attributeSelectors)

\* a later strategy would have yielded too, and was not evaluated
C10_Witness ==
    /\ pc = "extracted"
    /\ \E f \in FieldNames \ {"attributes"} :
          \E k \in 1..Strategies(f), j \in 1..Strategies(f) :
              /\ k < j
              /\ FirstToYield(Yields, f, k, TRUE)
              /\ Yields[f][j] # <<>>
              /\ queried[f] = k

\* the record that a listing of the running variant gives on the page p
RecordOf(listing, p) ==
    IF variant = "perListing" THEN MergePerListing(listing, ScrapeDetails[p])
    ELSE MergeSinglePage(listing, ScrapeDetails[p])

\* C11: when the harvests of the discovery showed at least limit distinct
\* listings and no listing failed, the answer carries exactly limit
\* records, the j-th made from the j-th reference discovered, and the name of
\* each is the name its page shows or else the reference's name, never the
\* default "N/A".
C11_LimitRecordsInOrder ==
    (/\ variant = "perListing"
     /\ pc = "done"
     /\ response.success
     /\ exposed >= limit
     /\ \A k \in 1..Len(attempts) : attempts[k] \notin FailedBeforeRecord) =>
        /\ Len(response.data) = limit
        /\ \A j \in 1..limit :
              /\ \E p \in ScrapePages : response.data[j] = RecordOf(listingUrls[j], p)
              /\ response.data[j].name \in {Joe, listingUrls[j].name}
              /\ response.data[j].name # NA

\* limit 3 against more than 3 listings shown, the records telling the order
C11_Witness ==
    /\ variant = "perListing"
    /\ pc = "done"
    /\ limit = 3
    /\ exposed > limit
    /\ attempts = <<"none", "none", "none">>
    /\ Len(response.data) = 3
    /\ response.data[1].name # response.data[2].name
    /\ response.data[2].name # response.data[3].name

\* C12: every discovered reference is given one pass of the loop, in
\* discovery order and never a second one, and the records are those of the
\* references whose pass did not fail, in that order: a subsequence of the
\* discovered references, one record for each at most.
C12_SubsequenceOnePass ==
    /\ Len(attempts) = i
    /\ i <= Len(Listings)
    /\ Len(detailedData) = Len(SucceededFrom(1))
    /\ \A j \in 1..Len(detailedData) :
          /\ \E p \in ScrapePages :
                detailedData[j] = RecordOf(Listings[SucceededFrom(1)[j] + 1], p)
          /\ j > 1 => SucceededFrom(1)[j - 1] < SucceededFrom(1)[j]

\* the first reference failed, the two after it gave the two records
C12_Witness ==
    /\ variant = "perListing"
    /\ pc = "done"
    /\ attempts = <<"extract", "none", "none">>
    /\ Len(response.data) = 2
    /\ response.data[1].name = listingUrls[2].name
    /\ response.data[2].name = listingUrls[3].name
    /\ listingUrls[2].name # listingUrls[3].name
    /\ listingUrls[1].name # listingUrls[2].name

\* String.prototype.split(sep) for a separator of two characters
RECURSIVE SplitOn(_, _)
SplitOn(s, sep) ==
    IF ~Includes(s, sep) THEN <<s>>
    ELSE <<SubSeq(s, 1, IndexOf(s, sep) - 1)>>
         \o SplitOn(SubSeq(s, IndexOf(s, sep) + Len(sep), Len(s)), sep)

\* the entries of an attributes value
Entries(attributes) ==
    {SplitOn(attributes, <<",", " ">>)[n] : n \in 1..Len(SplitOn(attributes, <<",", " ">>))}

\* C13: no entry of a record's attributes equals the name, the address, the
\* phone, the website or the category of that record.
C13_AttributesRepeatNoField ==
    \A k \in 1..Len(detailedData) :
        "attributes" \in DOMAIN detailedData[k] =>
            \A f \in {"name", "address", "phone", "website", "category"} :
                detailedData[k][f] \notin Entries(detailedData[k].attributes)

\* C14: an exception raised inside extractBusinessDetails while a field is
\* resolved (the fault "extract") costs the listing no record: every
\* listing whose page was opened and reached gives one.
C14_FieldFaultSwallowed ==
    Len(detailedData) =
        Cardinality({k \in 1..Len(attempts) : attempts[k] \notin {"newPage", "goto", "noClick"}})

\* C15: the rating of every record is "N/A" or a text that denotes a
\* number from 0 to 5 with at most one decimal digit.
C15_RatingInRange ==
    \A k \in 1..Len(detailedData) :
        "rating" \in DOMAIN detailedData[k] =>
            \/ detailedData[k].rating = NA
            \/ /\ RatingPattern(detailedData[k].rating)
               /\ RatingTenths(detailedData[k].rating) <= 50

\* C16: a request whose body lacks the query or the location is answered
\* 400 with no data, no browser is launched and no scrape is started.
C16_MissingFieldRejected ==
    (pc # "idle" /\ (request.query \in {<<>>, <<"">>} \/ request.location \in {<<>>, <<"">>})) =>
        /\ pc = "done"
        /\ response = [status |-> 400, success |-> FALSE, data |-> <<>>]
        /\ browser = "none"
        /\ thrown = "none"
        /\ limit = 0
        /\ listingUrls = <<>> /\ businessListings = <<>>
        /\ iterations = 0 /\ scrollAttempts = 0 /\ listingsCount = 0
        /\ attempts = <<>> /\ detailedData = <<>>
        /\ openPages = {} /\ closedPages = {}

C16_Witness ==
    /\ pc = "done"
    /\ request.query = <<"coffee">>
    /\ request.location = <<>>
    /\ response.status = 400
    /\ browser = "none"

\* the browser of call r has been launched and not closed
BrowserOpen(r) == calls[r].browser # 0 /\ browsers[calls[r].browser] = "open"

\* C17: two concurrent requests have a browser and a search page each, the
\* page of a request is a page of its own browser, a step of one request
\* changes no local of the other (browser, page, collected references,
\* scroll counter), and the other's browser stays open when one request
\* closes its own.
C17_RequestsIsolated ==
    /\ [](\A r \in Requests : \A o \in Requests \ {r} :
            /\ calls[r].browser # 0 => calls[r].browser # calls[o].browser
            /\ calls[r].searchPage # 0 =>
                  /\ calls[r].searchPage # calls[o].searchPage
                  /\ pages[calls[r].searchPage] = calls[r].browser)
    /\ [][\A r \in Requests : \A o \in Requests \ {r} :
            calls'[r] # calls[r] =>
                /\ calls'[o] = calls[o]
                /\ BrowserOpen(o) => browsers'[calls[o].browser] = "open"]_vars

C17_Witness ==
    /\ calls[1].pc = "done"
    /\ calls[1].browser # 0
    /\ browsers[calls[1].browser] = "closed"
    /\ Len(calls[1].listingUrls) = MaxConcurrentLimit
    /\ calls[2].pc = "collect"
    /\ BrowserOpen(2)
    /\ calls[2].scrollAttempts > 0
    /\ Len(calls[2].listingUrls) > 0

\* C18: when a listing's pass has ended and another listing follows, a
\* delay of at least 2000 ms and less than 5000 ms has been awaited,
\* whether the listing gave a record or was skipped.
C18_DelayBetweenListings ==
    (pc = "listings" /\ 0 < i /\ i < Len(Listings)) =>
        (waited >= 2000 /\ waited < 5000)

\* the eleven fields in the order of the record
ElevenFields ==
    << "name", "address", "phone", "website", "email", "rating", "reviews",
       "hours", "category", "priceRange", "attributes" >>

\* the request was answered with a table from a tabular encoder
TabularSent ==
    /\ exportResponse.status = 200
    /\ exportRequest.format \in {<<"xlsx">>, <<"csv">>}

\* C19: the table sent by the spreadsheet encoder and by the delimited-text
\* encoder has, for every record of the data, a row of eleven cells holding
\* the record's name, address, phone, website, email, rating, reviews,
\* hours, category, priceRange and attributes, in this order.
C19_ElevenFieldsInOrder ==
    TabularSent =>
        LET table == exportResponse.body[1]
            data == exportRequest.data[1]
        IN  /\ Len(table) = Len(data) + 1
            /\ \A k \in 1..Len(data) :
                  /\ Len(table[k + 1]) = 11
                  /\ \A c \in 1..11 :
                        ElevenFields[c] \in DOMAIN data[k] =>
                            table[k + 1][c] = data[k][ElevenFields[c]]

\* the export request has been answered
Answered == exportResponse # NoExportResponse

\* the request names one of the three formats
Supported == exportRequest.format \in {<<"xlsx">>, <<"csv">>, <<"json">>}

\* answered with a payload whose content type is the one of the format
PayloadOfFormat ==
    /\ exportResponse.status = 200
    /\ exportResponse.body # <<>>
    /\ exportRequest.format = <<"xlsx">> =>
          exportResponse.contentType =
              "application/vnd.openxmlformats-officedocument.spreadsheetml.sheet"
    /\ exportRequest.format = <<"csv">> => exportResponse.contentType = "text/csv"
    /\ exportRequest.format = <<"json">> => exportResponse.contentType = "application/json"

\* answered with a client error and no payload
RejectedByClientError == exportResponse.status = 400 /\ exportResponse.body = <<>>

C21_StagnationCounter ==
    /\ [](pc = "discover" =>
            /\ consecutiveNoNewUrls = iterations - lastGrowth
            /\ consecutiveNoNewUrls <= 5)
    /\ [][(pc = "discover" /\ consecutiveNoNewUrls = 5) =>
            (pc' = "listings" /\ listingUrls' = listingUrls)]_vars

C21_Witness ==
    /\ pc = "discover"
    /\ consecutiveNoNewUrls = 5
    /\ lastGrowth > 1
    /\ Len(listingUrls) < limit
    /\ scrollAttempts < 30

\* the selectors that give at least one element on the feed harvested
Yielding == {n \in 1..Len(listingLinkSelectors) : harvest.dom[n] # <<>>}

\* C22: the candidates of a harvest are those of one selector, the first in
\* priority order that gives at least one element (none when no selector
\* gives any), and the selectors after that one are not queried.
C22_OneStrategyPerHarvest ==
    harvest.queried # 0 =>
        IF Yielding = {}
        THEN harvest.newUrls = <<>> /\ harvest.queried = Len(listingLinkSelectors)
        ELSE /\ harvest.newUrls = NamedPlaces(harvest.dom[Least(Yielding)])
             /\ harvest.queried = Least(Yielding)

C22_Witness ==
    /\ harvest.queried = 2
    /\ harvest.dom[2] = <<Labeled(2), Labeled(3)>>
    /\ harvest.dom[3] = <<Labeled(1)>>
    /\ Len(harvest.newUrls) = 2

\* C23: while discovery runs, the scroll counter is the number of scrolls
\* performed, the wait after the n-th scroll was 3000 + 500 * n ms and so
\* longer than the one before, and an iteration scrolls and waits exactly
\* when it ends with fewer references than limit.
C23_ScrollBackOff ==
    /\ [](pc = "discover" =>
            /\ Len(scrollWaits) = scrollAttempts
            /\ \A n \in 1..Len(scrollWaits) :
                  /\ scrollWaits[n] = 3000 + 500 * n
                  /\ n > 1 => scrollWaits[n] > scrollWaits[n - 1])
    /\ [][(pc = "discover" /\ pc' = "discover") =>
            /\ Len(listingUrls') < limit => Len(scrollWaits') = Len(scrollWaits) + 1
            /\ Len(listingUrls') >= limit => scrollWaits' = scrollWaits]_vars

C23_Witness ==
    /\ pc = "discover"
    /\ Len(listingUrls) = limit
    /\ Len(scrollWaits) = 2
    /\ iterations = 3
    /\ scrollWaits[2] = 4000

\* a text that denotes a number from 0 to 5 with at most one decimal digit
InRatingRange(text) == RatingPattern(text) /\ RatingTenths(text) <= 50

\* the texts the rating strategies meet on a page, in priority order: the
\* trimmed text of each selector's element (empty when there is none),
\* then the trimmed text of each span
RatingCandidates(page) ==
    [n \in 1..Len(page.ratingEls) |->
        IF page.ratingEls[n] # <<>> /\ page.ratingEls[n][1] # <<>>
        THEN Trim(page.ratingEls[n][1]) ELSE <<>>]
    \o [n \in 1..Len(page.spans) |-> Trim(page.spans[n])]

\* the candidates of the page handed to extraction that pass the pattern
RatingPassing ==
    {n \in 1..Len(RatingCandidates(detailPage)) :
        InRatingRange(RatingCandidates(detailPage)[n])}

\* C24: the rating of the record is the text of the first strategy, in
\* priority order, whose text passes the rating pattern (0 to 5, at most
\* one decimal digit), a located element with another text being passed
\* over, and "N/A" when no strategy's text passes.
C24_RatingCascadeContinues ==
    \A k \in 1..Len(detailedData) :
        "rating" \in DOMAIN detailedData[k] =>
            detailedData[k].rating =
                IF RatingPassing = {} THEN NA
                ELSE RatingCandidates(detailPage)[Least(RatingPassing)]

\* the name selectors that locate an element on the page handed to extraction
NameLocated == {n \in 1..Len(detailPage.nameEls) : detailPage.nameEls[n] # <<>>}

\* C25: every record has a name: the trimmed text of the element of the
\* first name selector that locates one on the detail page, and the name of
\* the listing reference when no name selector locates an element.
C25_NameFromPageElseListing ==
    \A k \in 1..Len(detailedData) :
        /\ "name" \in DOMAIN detailedData[k]
        /\ detailedData[k].name =
              IF NameLocated = {} THEN Listings[k].name
              ELSE Trim(detailPage.nameEls[Least(NameLocated)][1])

C25_Witness ==
    /\ variant = "perListing"
    /\ Len(detailedData) = 1
    /\ Cardinality(NameLocated) > 1
    /\ detailedData[1].name = Joe
    /\ listingUrls[1].name # Joe

\* C26: the records of a scrape, and the data answered, are never more than
\* the references discovery returned, which are never more than limit.
C26_RecordsWithinReferences ==
    /\ Len(detailedData) <= Len(Listings)
    /\ Len(response.data) <= Len(Listings)
    /\ Len(Listings) <= limit

C26_Witness ==
    /\ variant = "singlePage"
    /\ pc = "done"
    /\ response.success
    /\ Len(feedItems) > limit
    /\ Len(businessListings) = limit
    /\ Len(response.data) = limit
    /\ limit > 1

\* C27: in the single-page variant, when the pass of a listing clicked by
\* index, the feed position clicked is the one stored in the listing's
\* index field.
C27_ClickByIndexHitsListing ==
    (variant = "singlePage" /\ pc = "listings" /\ i > 0 /\ clickedAt >= 0) =>
        clickedAt = businessListings[i].index

\* C28: in the single-page variant the loop before the collection never
\* scrolls more than 20 times, scrolls no more once a scroll left the count
\* of listings unchanged or the count has reached limit, and does not
\* scroll at all when the first count is 0.
C28_ScrollLoopStops ==
    /\ [](variant = "singlePage" => scrollAttempts <= 20)
    /\ [][(/\ variant = "singlePage"
           /\ pc = "scroll"
           /\ \/ listingsCount >= limit
              \/ listingsCount = previousCount
              \/ scrollAttempts = 0 /\ listingsCount = 0) =>
               scrollAttempts' \in {scrollAttempts, 0}]_vars

C28_Witness ==
    /\ variant = "singlePage"
    /\ pc = "scroll"
    /\ scrollAttempts = 20
    /\ listingsCount < limit
    /\ listingsCount # previousCount

\* C29: after an export attempt whose request was sent and answered, the
\* button clicked is enabled, shows its original text, and exportData
\* ended without an uncaught error.
C29_ExportButtonRestored ==
    \A format \in handled \ inFlight :
        /\ ~exportBtns[ClickedButton(format)].disabled
        /\ exportBtns[ClickedButton(format)].text = OriginalText(ClickedButton(format))
        /\ format \notin unhandled

\* C30: while a scrape awaits its response the status alert is visible,
\* and the error message of a failed scrape is never hidden.
C30_AlertNotHiddenByOldTimer ==
    /\ scrapeButton = "disabled" => ~statusAlert.hidden
    /\ (statusAlert.by = "scrape" /\ statusAlert.className = "alert-danger") =>
          ~statusAlert.hidden

====
